---- MODULE Spec2Model ----
(***************************************************************************)
(* A model of the moss engine's frame scheduler (mossBeginFrame,           *)
(* mossEndFrame, moss__recreateSwapchain) and of its sprite batch          *)
(* (mossBeginSpriteBatch, mossAddSpritesToSpriteBatch, mossEndSpriteBatch, *)
(* mossDrawSpriteBatch, mossClearSpriteBatch), together with the GPU       *)
(* queues that execute what they submit.                                   *)
(*                                                                         *)
(* The application is one thread: pc says whether it runs application code *)
(* ("app") or is blocked inside a call of the engine.  The GPU executes    *)
(* submitted batches asynchronously, one queue entry at a time.            *)
(***************************************************************************)
EXTENDS Integers, Sequences, FiniteSets, TLC

(***************************************************************************)
(* Program constants                                                       *)
(***************************************************************************)
MAX_FRAMES_IN_FLIGHT == 2

MAX_SWAPCHAIN_IMAGE_COUNT == 4

MOSS__VERTICIES_PER_SPRITE == 4

MOSS__INDICES_PER_SPRITE == 6

\* sizeof (Moss__Vertex): vec3 position + vec2 texture_coords, five floats.
SizeofVertex == 20

\* sizeof (uint16_t)
SizeofIndex == 2

\* Number of values of a uint16_t.
Uint16Range == 65536

\* Bytes per word of the modelled buffer memory (one float, or two indices).
WordBytes == 4

(***************************************************************************)
(* Bounds of the model                                                     *)
(***************************************************************************)
\* Largest capacity a batch is created with.
MaxCapacity == 2

\* Sprites a session may hold beyond the capacity (the code does not stop it).
MaxOverrun == 1

\* Largest spriteCount of one mossAddSpritesToSpriteBatch call.
MaxAddCount == 2

\* Draw calls recorded into one command buffer.
MaxDraws == 1

\* Distinct framebuffer sizes the window takes.
NumWindowSizes == 2

\* Images of the swapchain the acquire hands out.
NumImages == 2

\* Transfers of the batch submitted and not yet executed.
MaxTransfers == 1

\* The capacity of the batch whose indices are followed past 16 bits.
WideCapacity == 16385

\* Sprites one draw call covers a pixel with.
MaxSpritesDrawn == 3

\* Image layout transitions asked for.
MaxTransitions == 2

FrameSlots == 0 .. (MAX_FRAMES_IN_FLIGHT - 1)

VARIABLES
  pc,                        \* where the application thread is
  frameReturn,               \* what the last frame call returned
  batchReturn,               \* what the last sprite batch call returned
  currentFrame,              \* MossEngine.currentFrame
  currentImageIndex,         \* MossEngine.currentImageIndex
  inFlightFences,            \* slot -> TRUE when signaled
  imageAvailableSemaphores,  \* slot -> number of unconsumed signals
  generalCommandBuffers,     \* slot -> command buffer
  swapchain,                 \* handle and recorded extent
  windowFramebufferSize,     \* what getWindowFramebufferSize returns now
  graphicsQueue,             \* submitted, not yet completed batches
  transferQueue,             \* the same for a dedicated transfer queue
  dedicatedTransfer,         \* transferFamily # graphicsFamily
  spriteBatch,               \* struct MossSpriteBatch
  stagingMemory,             \* the mapped staging buffer, word by word
  deviceBuffer,              \* the device-local buffer, word by word
  spritesAdded,              \* sprites passed to add since the last begin
  pIndicesWritten,           \* the six indices stored for the last sprite
  surface,                   \* what the presentation surface supports now
  swapchainState,            \* the swapchain fields of MossEngine, handle by handle
  vkCalls,                   \* creations and destructions of the last build or teardown
  beforeRebuild,             \* the swapchain fields the last rebuild started from
  camera,                    \* MossEngine.camera
  cameraUboBufferMappedMemoryBlocks,  \* slot -> the camera copy the slot's frames read
  acquireResult,             \* VkResult of the last vkAcquireNextImageKHR
  frameAcquire,              \* what the vkAcquireNextImageKHR of the frame was given and handed back
  submit_info,               \* the VkSubmitInfo and the fence of the last vkQueueSubmit of a frame
  present_info,              \* the VkPresentInfoKHR of the last vkQueuePresentKHR
  slotCalls,                 \* slot -> mossBeginFrame calls and frame submissions so far
  attachments,               \* colour and depth of one pixel of the framebuffer
  drawIndexed,               \* the sprites a vkCmdDrawIndexed covers the pixel with, and the next one
  transition                 \* the image layout transitions asked for, and what they left behind

engineVars == << currentFrame, currentImageIndex, inFlightFences,
                 imageAvailableSemaphores, generalCommandBuffers, swapchain >>

batchVars == << spriteBatch, stagingMemory, deviceBuffer, spritesAdded,
                pIndicesWritten >>

resourceVars == << surface, swapchainState, vkCalls, beforeRebuild >>

cameraVars == << camera, cameraUboBufferMappedMemoryBlocks >>

callVars == << frameAcquire, submit_info, present_info, slotCalls >>

imageVars == << attachments, drawIndexed, transition >>

vars == << pc, frameReturn, batchReturn, currentFrame, currentImageIndex,
           inFlightFences, imageAvailableSemaphores, generalCommandBuffers,
           swapchain, windowFramebufferSize, graphicsQueue, transferQueue,
           dedicatedTransfer, spriteBatch, stagingMemory, deviceBuffer,
           spritesAdded, pIndicesWritten, surface, swapchainState, vkCalls,
           beforeRebuild,
           camera, cameraUboBufferMappedMemoryBlocks, acquireResult,
           frameAcquire, submit_info, present_info, slotCalls,
           attachments, drawIndexed, transition >>

\* The value of a variable the specification at hand does not follow.
NotFollowed == "not followed"

MOSS_RESULT_SUCCESS == "MOSS_RESULT_SUCCESS"

MOSS_RESULT_ERROR == "MOSS_RESULT_ERROR"

\* A Vulkan handle held in a field: VK_NULL_HANDLE, the handle of an object
\* that exists, or the handle of an object already destroyed or freed.
VK_NULL_HANDLE == "VK_NULL_HANDLE"

LiveHandle == "live"

DestroyedHandle == "destroyed"

\* One Vulkan creation or destruction: the function, the field whose handle
\* it is given or fills, and the handle it is given or hands back.
VkCall(fn, object, handle) == [fn |-> fn, object |-> object, handle |-> handle]

\* A handle after the call that destroys or frees its object.
Released(handle) ==
  IF handle = VK_NULL_HANDLE THEN VK_NULL_HANDLE ELSE DestroyedHandle

\* if (handle != VK_NULL_HANDLE) { fn (device, handle, NULL); }
ReleaseCall(fn, object, handle) ==
  IF handle = VK_NULL_HANDLE THEN << >> ELSE << VkCall(fn, object, handle) >>

\* What a call handed back: the function, its MossResult, and what it logged.
Returned(fn, result, log) == [fn |-> fn, result |-> result, log |-> log]

(***************************************************************************)
(* Frame scheduler: helpers                                                *)
(***************************************************************************)
\* A command buffer: its Vulkan lifecycle state, whether a render pass is
\* open in it, the framebuffer (image index) the pass was begun on, and the
\* number of sprite batch draws recorded.
InitialCommandBuffer ==
  [state |-> "initial", renderPass |-> FALSE, framebuffer |-> -1, draws |-> 0]

\* vkWaitForFences on one fence with an unbounded timeout returns when the
\* fence is signaled.
NoWaitForFences(slot) == TRUE

WaitForFences(slot) == inFlightFences[slot]

\* moss__createInFlightFences: VK_FENCE_CREATE_SIGNALED_BIT on every fence.
CreateFencesUnsignaled == [s \in FrameSlots |-> FALSE]

moss__createInFlightFences == [s \in FrameSlots |-> TRUE]

\* vkResetFences
KeepFences(fences, slot) == fences

ResetFences(fences, slot) == [fences EXCEPT ![slot] = FALSE]

\* vkDeviceWaitIdle returns when no queue of the device has work left.
NoDeviceWaitIdle == TRUE

DeviceIdle == graphicsQueue = << >> /\ transferQueue = << >>

\* vkQueueSubmit of the frame's command buffer: the batch waits on the
\* slot's image-available semaphore and signals the slot's fence.
FrameSubmission(slot) ==
  [kind |-> "frame", slot |-> slot,
   draws |-> generalCommandBuffers[slot].draws,
   vertexBytes |-> 0, indexBytes |-> 0]

\* The caller's view: mossBeginFrame returned success and mossEndFrame has
\* not been called since.
FrameBelievedOpen ==
  /\ frameReturn.fn = "mossBeginFrame"
  /\ frameReturn.result = MOSS_RESULT_SUCCESS

\* currentFrame = (currentFrame + 1) % MAX_FRAMES_IN_FLIGHT
NextFrameUnwrapped(cf) == cf + 1

NextFrame(cf) == (cf + 1) % MAX_FRAMES_IN_FLIGHT

\* Destroying the framebuffers invalidates every command buffer recorded
\* against them.
InvalidateCommandBuffers(cbs) ==
  [s \in FrameSlots |->
     IF cbs[s].state \in {"recording", "executable"}
     THEN [cbs[s] EXCEPT !.state = "invalid", !.renderPass = FALSE]
     ELSE cbs[s]]

VK_SUCCESS == "VK_SUCCESS"

VK_SUBOPTIMAL_KHR == "VK_SUBOPTIMAL_KHR"

VK_ERROR_OUT_OF_DATE_KHR == "VK_ERROR_OUT_OF_DATE_KHR"

\* The results of vkAcquireNextImageKHR that hand out an image.
AcquiredResults == {VK_SUCCESS, VK_SUBOPTIMAL_KHR}

\* The new value of a variable, kept only where the variable is followed.
Followed(old, new) == IF old = NotFollowed THEN old ELSE new

\* The specifications that follow the results of the acquires follow the
\* handles of the swapchain as well.
SwapchainFollowed == acquireResult # NotFollowed

\* They follow, too, what the Vulkan calls of a frame are given: semaphores
\* and fences by their index in imageAvailableSemaphores,
\* renderFinishedSemaphores and inFlightFences, -1 where there is none.
CallsFollowed == acquireResult # NotFollowed

\* No vkAcquireNextImageKHR, vkQueueSubmit or vkQueuePresentKHR yet.
NoAcquire == [semaphore |-> -1, result |-> "none", imageIndex |-> -1]

NoSubmit == [pWaitSemaphores |-> -1, pSignalSemaphores |-> -1, fence |-> -1]

NoPresent == [pWaitSemaphores |-> -1, pImageIndices |-> -1]

NoSlotCalls == [s \in FrameSlots |-> [begun |-> "never", submitted |-> FALSE]]

\* One more mossBeginFrame on a slot: the first one, or a later one.
BegunAgain(begun) == IF begun = "never" THEN "first" ELSE "later"

\* vkAcquireNextImageKHR (device, swapchain, UINT64_MAX,
\* imageAvailableSemaphores[ currentFrame ], VK_NULL_HANDLE,
\* &currentImageIndex): what it was given and what it handed back.
AcquireCall(result, image) ==
  [semaphore |-> currentFrame, result |-> result, imageIndex |-> image]

\* submit_info and the fence of vkQueueSubmit in mossEndFrame, from the
\* locals read at its entry.
SubmitInfo ==
  [pWaitSemaphores |-> currentFrame, pSignalSemaphores |-> currentFrame,
   fence |-> currentFrame]

\* present_info in mossEndFrame: it waits on pSignalSemaphores and names
\* current_image_index, the copy of currentImageIndex taken at entry.
PresentInfo ==
  [pWaitSemaphores |-> SubmitInfo.pSignalSemaphores,
   pImageIndices |-> currentImageIndex]

\* moss_updateCameraUboData: memcpy of the camera into the mapped block of
\* slot currentFrame.
UpdateEveryCameraUbo(blocks) == [s \in FrameSlots |-> camera]

moss_updateCameraUboData(blocks) == [blocks EXCEPT ![currentFrame] = camera]

\* Cameras the application sets: the initial one and another.
Cameras == {0, 1}

\* mossSetCameraPosition / mossSetCameraSize through the pointer mossGetCamera
\* hands out: the application changes MossEngine.camera between calls.
mossSetCameraPosition ==
  /\ pc = "app"
  /\ \E newCamera \in Cameras \ {camera} : camera' = newCamera
  /\ UNCHANGED << pc, frameReturn, batchReturn, engineVars,
                  windowFramebufferSize, graphicsQueue, transferQueue,
                  dedicatedTransfer, batchVars, resourceVars,
                  cameraUboBufferMappedMemoryBlocks, acquireResult, callVars, imageVars >>

(***************************************************************************)
(* mossBeginFrame                                                          *)
(***************************************************************************)
\* The call: the thread enters vkWaitForFences.  A caller calls it when no
\* frame is open, or to retry after the out-of-date return; never after a
\* failed swapchain rebuild, which is fatal.
mossBeginFrame ==
  /\ pc = "app"
  /\ swapchain.handle
  /\ \/ ~FrameBelievedOpen
     \/ frameReturn.log = "out of date"
  /\ pc' = "vkWaitForFences"
  /\ IF CallsFollowed
     THEN /\ frameAcquire' = NoAcquire
          /\ slotCalls' = [slotCalls EXCEPT ![currentFrame].begun = BegunAgain(@)]
     ELSE UNCHANGED << frameAcquire, slotCalls >>
  /\ UNCHANGED << frameReturn, batchReturn, engineVars, windowFramebufferSize,
                  graphicsQueue, transferQueue, dedicatedTransfer, batchVars >>
  /\ UNCHANGED << resourceVars, cameraVars, acquireResult, submit_info,
                  present_info, imageVars >>

\* From the return of vkWaitForFences to the return of mossBeginFrame, or to
\* the vkDeviceWaitIdle of the rebuild.
mossBeginFrame_acquire ==
  /\ pc = "vkWaitForFences"
  /\ WaitForFences(currentFrame)
  /\ inFlightFences' = ResetFences(inFlightFences, currentFrame)
  /\ \/ \* VK_SUCCESS or VK_SUBOPTIMAL_KHR, and recording begins
        \E image \in 0 .. (NumImages - 1), result \in AcquiredResults :
          /\ currentImageIndex' = image
          /\ acquireResult' = Followed(acquireResult, result)
          /\ frameAcquire' = IF CallsFollowed THEN AcquireCall(result, image)
                                              ELSE frameAcquire
          /\ imageAvailableSemaphores' =
               [imageAvailableSemaphores EXCEPT ![currentFrame] = @ + 1]
          /\ generalCommandBuffers' =
               [generalCommandBuffers EXCEPT ![currentFrame] =
                  [state |-> "recording", renderPass |-> TRUE,
                   framebuffer |-> image, draws |-> 0]]
          /\ pc' = "app"
          /\ frameReturn' = Returned("mossBeginFrame", MOSS_RESULT_SUCCESS, "")
          /\ cameraUboBufferMappedMemoryBlocks' =
               moss_updateCameraUboData(cameraUboBufferMappedMemoryBlocks)
     \/ \* the image is acquired, vkBeginCommandBuffer fails
        \E image \in 0 .. (NumImages - 1), result \in AcquiredResults :
          /\ currentImageIndex' = image
          /\ acquireResult' = Followed(acquireResult, result)
          /\ frameAcquire' = IF CallsFollowed THEN AcquireCall(result, image)
                                              ELSE frameAcquire
          /\ imageAvailableSemaphores' =
               [imageAvailableSemaphores EXCEPT ![currentFrame] = @ + 1]
          /\ generalCommandBuffers' =
               [generalCommandBuffers EXCEPT ![currentFrame] =
                  InitialCommandBuffer]
          /\ pc' = "app"
          /\ frameReturn' = Returned("mossBeginFrame", MOSS_RESULT_ERROR,
                                     "Failed to begin recording command buffer.")
          /\ UNCHANGED cameraUboBufferMappedMemoryBlocks
     \/ \* VK_ERROR_OUT_OF_DATE_KHR: moss__recreateSwapchain is entered
        /\ pc' = "recreate in begin"
        /\ acquireResult' = Followed(acquireResult, VK_ERROR_OUT_OF_DATE_KHR)
        /\ frameAcquire' = IF CallsFollowed
                           THEN AcquireCall(VK_ERROR_OUT_OF_DATE_KHR, -1)
                           ELSE frameAcquire
        /\ UNCHANGED << currentImageIndex, imageAvailableSemaphores,
                        generalCommandBuffers, frameReturn,
                        cameraUboBufferMappedMemoryBlocks >>
     \/ \* any other result of vkAcquireNextImageKHR
        /\ pc' = "app"
        /\ frameReturn' = Returned("mossBeginFrame", MOSS_RESULT_ERROR,
                                   "Failed to acquire swap chain image.")
        /\ acquireResult' = Followed(acquireResult, "another VkResult")
        /\ frameAcquire' = IF CallsFollowed
                           THEN AcquireCall("another VkResult", -1)
                           ELSE frameAcquire
        /\ UNCHANGED << currentImageIndex, imageAvailableSemaphores,
                        generalCommandBuffers,
                        cameraUboBufferMappedMemoryBlocks >>
  /\ UNCHANGED << batchReturn, currentFrame, swapchain, windowFramebufferSize,
                  graphicsQueue, transferQueue, dedicatedTransfer, batchVars >>
  /\ UNCHANGED << resourceVars, camera, submit_info, present_info, slotCalls,
                  imageVars >>

(***************************************************************************)
(* The swapchain and the resources built on it                             *)
(***************************************************************************)
\* The indices of swapchainImages, presentFramebufferImageViews and
\* presentFramebuffers.
SwapchainImageSlots == 0 .. (MAX_SWAPCHAIN_IMAGE_COUNT - 1)

\* A field of the swapchain state that holds no object.
NoHandles == [i \in SwapchainImageSlots |-> VK_NULL_HANDLE]

\* moss__initEngineState: the swapchain fields before anything is created.
\* imageExtent is not a field of the engine: it is the extent the images of
\* the Vulkan swapchain were created with.
InitialSwapchainState ==
  [swapchain                    |-> VK_NULL_HANDLE,
   swapchainImageCount          |-> 0,
   swapchainImageFormat         |-> "VK_FORMAT_UNDEFINED",
   swapchainExtent              |-> 0,
   imageExtent                  |-> 0,
   presentFramebufferImageViews |-> NoHandles,
   presentFramebuffers          |-> NoHandles,
   depthImage                   |-> VK_NULL_HANDLE,
   depthImageMemory             |-> VK_NULL_HANDLE,
   depthImageView               |-> VK_NULL_HANDLE]

\* VkSurfaceCapabilitiesKHR.currentExtent of a surface whose size the
\* swapchain decides: width and height are UINT32_MAX, all bits set, which
\* is -1 as a signed number of the same width.
UndefinedExtent == -1

\* mossVk__chooseSwapSurfaceFormat
FirstFormat(availableFormats) == availableFormats[1]

mossVk__chooseSwapSurfaceFormat(availableFormats) ==
  IF \E i \in DOMAIN availableFormats :
       availableFormats[i] = "VK_FORMAT_B8G8R8A8_SRGB"
  THEN "VK_FORMAT_B8G8R8A8_SRGB"
  ELSE availableFormats[1]

\* mossVk__chooseSwapExtent
mossVk__chooseSwapExtent(capabilities, extent) ==
  IF capabilities.currentExtent # UndefinedExtent
  THEN capabilities.currentExtent
  ELSE IF extent < capabilities.minImageExtent
       THEN capabilities.minImageExtent
       ELSE IF extent > capabilities.maxImageExtent
            THEN capabilities.maxImageExtent
            ELSE extent

\* The state of a build or teardown under way: the fields, the Vulkan calls
\* made so far, and whether every step so far succeeded.
Run(st, calls, ok) == [st |-> st, calls |-> calls, ok |-> ok]

\* What a loop reads at an index past the end of a four-element array: the
\* read is undefined, and gives a null handle or something else.
BeyondTheArray == "beyond the array"

ReadsBeyond == {VK_NULL_HANDLE, BeyondTheArray}

\* for (i = 0; i < count; ++i)
\*   { if (handles[ i ] == VK_NULL_HANDLE) { continue; } fn (handles[ i ]); }
RECURSIVE DestroyEachCalls(_, _, _, _, _, _)
DestroyEachCalls(fn, field, handles, i, count, beyond) ==
  IF i >= count
  THEN << >>
  ELSE ReleaseCall(fn, field,
                   IF i \in DOMAIN handles THEN handles[i] ELSE beyond)
         \o DestroyEachCalls(fn, field, handles, i + 1, count, beyond)

\* handles[ i ] = VK_NULL_HANDLE for every i below count
NulledBelow(handles, count) ==
  [i \in DOMAIN handles |-> IF i < count THEN VK_NULL_HANDLE ELSE handles[i]]

moss__cleanupSwapchainFramebuffers(run, beyond) ==
  Run([run.st EXCEPT !.presentFramebuffers =
                       NulledBelow(@, run.st.swapchainImageCount)],
      run.calls \o DestroyEachCalls("vkDestroyFramebuffer", "presentFramebuffers",
                                    run.st.presentFramebuffers, 0,
                                    run.st.swapchainImageCount, beyond),
      run.ok)

moss__cleanupSwapchainImageViews(run, beyond) ==
  Run([run.st EXCEPT !.presentFramebufferImageViews =
                       NulledBelow(@, run.st.swapchainImageCount)],
      run.calls \o DestroyEachCalls("vkDestroyImageView",
                                    "presentFramebufferImageViews",
                                    run.st.presentFramebufferImageViews, 0,
                                    run.st.swapchainImageCount, beyond),
      run.ok)

moss__cleanupSwapchainHandle(run) ==
  Run([run.st EXCEPT !.swapchain = VK_NULL_HANDLE],
      run.calls \o ReleaseCall("vkDestroySwapchainKHR", "swapchain",
                               run.st.swapchain),
      run.ok)

moss__cleanupDepthResources(run) ==
  Run([run.st EXCEPT !.depthImageView = VK_NULL_HANDLE,
                     !.depthImageMemory = VK_NULL_HANDLE,
                     !.depthImage = VK_NULL_HANDLE],
      run.calls
        \o ReleaseCall("vkDestroyImageView", "depthImageView",
                       run.st.depthImageView)
        \o ReleaseCall("vkFreeMemory", "depthImageMemory",
                       run.st.depthImageMemory)
        \o ReleaseCall("vkDestroyImage", "depthImage", run.st.depthImage),
      run.ok)

\* The fields moss__cleanupSwapchain resets after the four teardowns.
ResetSwapchainFields(run) ==
  Run([run.st EXCEPT !.swapchainImageCount = 0,
                     !.swapchainImageFormat = "VK_FORMAT_UNDEFINED",
                     !.swapchainExtent = 0],
      run.calls, run.ok)

CleanupImageViewsBeforeDepth(run, beyond) ==
  ResetSwapchainFields(
    moss__cleanupDepthResources(
      moss__cleanupSwapchainHandle(
        moss__cleanupSwapchainImageViews(
          moss__cleanupSwapchainFramebuffers(run, beyond), beyond))))

moss__cleanupSwapchain(run, beyond) ==
  ResetSwapchainFields(
    moss__cleanupSwapchainHandle(
      moss__cleanupSwapchainImageViews(
        moss__cleanupDepthResources(
          moss__cleanupSwapchainFramebuffers(run, beyond)), beyond)))

\* A step of a build that fails: the Vulkan call, and for the calls made
\* once per image the index of the image.
Failure(step, i) == [step |-> step, i |-> i]

NoFailure == Failure("none", 0)

\* The steps at which a swapchain rebuild can fail.
RebuildFailures ==
  {NoFailure}
    \cup {Failure(step, 0) :
            step \in {"vkCreateSwapchainKHR", "vkCreateImage",
                      "vkAllocateMemory", "vkBindImageMemory",
                      "vkCreateImageView of depthImage",
                      "mossVk__transitionImageLayout"}}
    \cup {Failure(step, i) :
            step \in {"vkCreateImageView", "vkCreateFramebuffer"},
            i \in SwapchainImageSlots}

\* The Vulkan creation calls of one handle per image, for the images below n.
CreateEachCalls(fn, field, n) ==
  [i \in 1 .. n |-> VkCall(fn, field, LiveHandle)]

\* handles[ i ] filled for every i below n
CreatedBelow(handles, n) ==
  [i \in DOMAIN handles |-> IF i < n THEN LiveHandle ELSE handles[i]]

\* handles[ j ] destroyed, and left in the array, for every j below n
DestroyedBelow(handles, n) ==
  [i \in DOMAIN handles |-> IF i < n THEN DestroyedHandle ELSE handles[i]]

\* The number of per-image calls that succeed: all of them, or those before
\* the failing one.
Succeeding(step, count, fail) ==
  IF fail.step = step /\ fail.i < count THEN fail.i ELSE count

\* moss__createSwapchain; a step of the build is skipped when an earlier one
\* failed, as the callers return at the first failure.
moss__createSwapchain(run, extent, fail) ==
  IF ~run.ok THEN run
  ELSE IF fail.step = "vkCreateSwapchainKHR" THEN Run(run.st, run.calls, FALSE)
  ELSE
    LET calls == Append(run.calls,
                        VkCall("vkCreateSwapchainKHR", "swapchain", LiveHandle))
        created == [run.st EXCEPT
                      !.swapchain = LiveHandle,
                      !.swapchainImageCount = surface.imageCount,
                      !.imageExtent = mossVk__chooseSwapExtent(surface, extent)]
    IN IF created.swapchainImageCount > MAX_SWAPCHAIN_IMAGE_COUNT
       THEN Run(created, calls, FALSE)
       ELSE Run([created EXCEPT
                   !.swapchainImageFormat =
                     mossVk__chooseSwapSurfaceFormat(surface.formats),
                   !.swapchainExtent = extent],
                calls, TRUE)

moss__createSwapchainImageViews(run, fail) ==
  IF ~run.ok THEN run
  ELSE
    LET count == run.st.swapchainImageCount
        n == Succeeding("vkCreateImageView", count, fail)
    IN Run([run.st EXCEPT !.presentFramebufferImageViews = CreatedBelow(@, n)],
           run.calls \o CreateEachCalls("vkCreateImageView",
                                        "presentFramebufferImageViews", n),
           n = count)

\* moss__createDepthResources: a failure destroys what the function created
\* and leaves the handles in the fields.
moss__createDepthResources(run, fail) ==
  IF ~run.ok THEN run
  ELSE IF fail.step = "vkCreateImage" THEN Run(run.st, run.calls, FALSE)
  ELSE
    LET image == VkCall("vkCreateImage", "depthImage", LiveHandle)
        memory == VkCall("vkAllocateMemory", "depthImageMemory", LiveHandle)
        view == VkCall("vkCreateImageView", "depthImageView", LiveHandle)
        destroyImage == VkCall("vkDestroyImage", "depthImage", LiveHandle)
        freeMemory == VkCall("vkFreeMemory", "depthImageMemory", LiveHandle)
        destroyView == VkCall("vkDestroyImageView", "depthImageView", LiveHandle)
    IN CASE fail.step = "vkAllocateMemory" ->
              Run([run.st EXCEPT !.depthImage = DestroyedHandle],
                  run.calls \o << image, destroyImage >>, FALSE)
         [] fail.step \in {"vkBindImageMemory",
                           "vkCreateImageView of depthImage"} ->
              Run([run.st EXCEPT !.depthImage = DestroyedHandle,
                                 !.depthImageMemory = DestroyedHandle],
                  run.calls \o << image, memory, freeMemory, destroyImage >>,
                  FALSE)
         [] fail.step = "mossVk__transitionImageLayout" ->
              Run([run.st EXCEPT !.depthImage = DestroyedHandle,
                                 !.depthImageMemory = DestroyedHandle,
                                 !.depthImageView = DestroyedHandle],
                  run.calls \o << image, memory, view, destroyView,
                                  freeMemory, destroyImage >>,
                  FALSE)
         [] OTHER ->
              Run([run.st EXCEPT !.depthImage = LiveHandle,
                                 !.depthImageMemory = LiveHandle,
                                 !.depthImageView = LiveHandle],
                  run.calls \o << image, memory, view >>, TRUE)

\* moss__createPresentFramebuffers: a failure at image i destroys the
\* framebuffers below i and leaves their handles in the array.
moss__createPresentFramebuffers(run, fail) ==
  IF ~run.ok THEN run
  ELSE
    LET count == run.st.swapchainImageCount
        n == Succeeding("vkCreateFramebuffer", count, fail)
        created == CreateEachCalls("vkCreateFramebuffer", "presentFramebuffers", n)
    IN IF n = count
       THEN Run([run.st EXCEPT !.presentFramebuffers = CreatedBelow(@, n)],
                run.calls \o created, TRUE)
       ELSE Run([run.st EXCEPT !.presentFramebuffers = DestroyedBelow(@, n)],
                run.calls \o created
                  \o CreateEachCalls("vkDestroyFramebuffer",
                                     "presentFramebuffers", n),
                FALSE)

\* The failing steps told apart: all of them where the handles of the
\* swapchain are followed, else one.
RebuildFailuresFollowed ==
  IF ~SwapchainFollowed
  THEN {NoFailure, Failure("vkCreateSwapchainKHR", 0)}
  ELSE RebuildFailures

\* The body of moss__recreateSwapchain after its vkDeviceWaitIdle.
RecreateSwapchainRun(st, extent, fail, beyond) ==
  moss__createPresentFramebuffers(
    moss__createDepthResources(
      moss__createSwapchainImageViews(
        moss__createSwapchain(
          moss__cleanupSwapchain(Run(st, << >>, TRUE), beyond),
          extent, fail),
        fail),
      fail),
    fail)

\* A step of mossCreateEngine other than those of the swapchain, its views,
\* the depth resources and the framebuffers.
OtherStep(run, step, fail) ==
  IF run.ok /\ fail.step = step THEN Run(run.st, run.calls, FALSE) ELSE run

\* The steps at which mossCreateEngine can fail: those of a rebuild, a step
\* before the swapchain is created, and the steps between and after the
\* steps of a rebuild.
BootstrapFailures ==
  RebuildFailures
    \cup {Failure(step, 0) :
            step \in {"moss__createLogicalDevice", "moss__createRenderPass",
                      "moss__createDescriptorPool",
                      "moss__createSynchronizationObjects"}}

\* mossCreateEngine from moss__initEngineState to its last creation.
CreateEngineRun(extent, fail) ==
  OtherStep(
    moss__createPresentFramebuffers(
      OtherStep(
        moss__createDepthResources(
          OtherStep(
            moss__createSwapchainImageViews(
              moss__createSwapchain(
                OtherStep(Run(InitialSwapchainState, << >>, TRUE),
                          "moss__createLogicalDevice", fail),
                extent, fail),
              fail),
            "moss__createRenderPass", fail),
          fail),
        "moss__createDescriptorPool", fail),
      fail),
    "moss__createSynchronizationObjects", fail)

\* mossDestroyEngine after its vkDeviceWaitIdle: moss__cleanupSwapchain and,
\* further down, moss__cleanupDepthResources once more.
DestroyEngineRun(st, calls, beyond) ==
  moss__cleanupDepthResources(
    moss__cleanupSwapchain(Run(st, calls, TRUE), beyond))

\* The surfaces the window system offers: the images a swapchain on it
\* gets, its formats in the order reported, and its extents.
Surfaces ==
  [imageCount     : {NumImages, MAX_SWAPCHAIN_IMAGE_COUNT,
                     MAX_SWAPCHAIN_IMAGE_COUNT + 1},
   formats        : {<< "VK_FORMAT_R8G8B8A8_UNORM", "VK_FORMAT_B8G8R8A8_SRGB" >>,
                     << "VK_FORMAT_R8G8B8A8_UNORM" >>},
   currentExtent  : {UndefinedExtent, 1},
   minImageExtent : {1},
   maxImageExtent : {1, NumWindowSizes}]

\* The surface of a window whose swapchain decides the size of the images.
PlainSurface ==
  [imageCount     |-> NumImages,
   formats        |-> << "VK_FORMAT_R8G8B8A8_UNORM", "VK_FORMAT_B8G8R8A8_SRGB" >>,
   currentExtent  |-> UndefinedExtent,
   minImageExtent |-> 1,
   maxImageExtent |-> NumWindowSizes]

(***************************************************************************)
(* moss__recreateSwapchain, from the return of its vkDeviceWaitIdle        *)
(***************************************************************************)
\* pEngine->getWindowFramebufferSize (&extent.width, &extent.height), the
\* call that precedes every moss__recreateSwapchain.
RecordedExtent == swapchain.extent

getWindowFramebufferSize == windowFramebufferSize

moss__recreateSwapchain ==
  /\ pc \in {"recreate in begin", "recreate in end"}
  /\ DeviceIdle
  /\ \E fail \in RebuildFailuresFollowed, beyond \in ReadsBeyond :
       LET extent == getWindowFramebufferSize
           run == IF ~SwapchainFollowed
                  THEN Run(swapchainState, vkCalls, fail = NoFailure)
                  ELSE RecreateSwapchainRun(swapchainState, extent, fail, beyond)
       IN /\ swapchainState' = run.st
          /\ vkCalls' = run.calls
          /\ beforeRebuild' = IF SwapchainFollowed THEN swapchainState
                                                   ELSE beforeRebuild
          /\ \/ \* every step of the rebuild succeeds
                /\ run.ok
                /\ swapchain' = [handle |-> TRUE, extent |-> extent]
                /\ generalCommandBuffers' =
                     InvalidateCommandBuffers(generalCommandBuffers)
                /\ IF pc = "recreate in begin"
                   THEN /\ frameReturn' =
                             Returned("mossBeginFrame", MOSS_RESULT_SUCCESS,
                                      "out of date")
                        /\ UNCHANGED currentFrame
                   ELSE /\ frameReturn' =
                             Returned("mossEndFrame", MOSS_RESULT_SUCCESS, "")
                        /\ currentFrame' = NextFrame(currentFrame)
             \/ \* a step of the rebuild fails
                /\ ~run.ok
                /\ swapchain' = [handle |-> FALSE, extent |-> 0]
                /\ generalCommandBuffers' =
                     InvalidateCommandBuffers(generalCommandBuffers)
                /\ frameReturn' =
                     Returned(IF pc = "recreate in begin" THEN "mossBeginFrame"
                                                          ELSE "mossEndFrame",
                              MOSS_RESULT_ERROR, "recreate failed")
                /\ UNCHANGED currentFrame
  /\ pc' = "app"
  /\ UNCHANGED << batchReturn, currentImageIndex, inFlightFences,
                  imageAvailableSemaphores, windowFramebufferSize,
                  graphicsQueue, transferQueue, dedicatedTransfer, batchVars >>
  /\ UNCHANGED << surface, cameraVars, acquireResult, callVars, imageVars >>

(***************************************************************************)
(* mossEndFrame                                                            *)
(***************************************************************************)
\* vkEndCommandBuffer on the slot's buffer: a recording buffer becomes
\* executable.  On a buffer that is not recording the call is invalid usage;
\* a driver that accepts it leaves the buffer as it is.
EndedCommandBuffers ==
  IF generalCommandBuffers[currentFrame].state = "recording"
  THEN [generalCommandBuffers EXCEPT ![currentFrame].state = "executable",
                                     ![currentFrame].renderPass = FALSE]
  ELSE generalCommandBuffers

SubmittedCommandBuffers ==
  [EndedCommandBuffers EXCEPT ![currentFrame].state = "pending"]

mossEndFrame ==
  /\ pc = "app"
  /\ FrameBelievedOpen
  /\ swapchain.handle
  /\ \/ \* vkEndCommandBuffer fails
        /\ generalCommandBuffers' =
             [generalCommandBuffers EXCEPT ![currentFrame].state = "invalid",
                                           ![currentFrame].renderPass = FALSE]
        /\ pc' = "app"
        /\ frameReturn' = Returned("mossEndFrame", MOSS_RESULT_ERROR,
                                   "Failed to end recording command buffer.")
        /\ UNCHANGED << graphicsQueue, currentFrame >>
     \/ \* vkQueueSubmit fails
        /\ generalCommandBuffers' = EndedCommandBuffers
        /\ pc' = "app"
        /\ frameReturn' = Returned("mossEndFrame", MOSS_RESULT_ERROR,
                                   "Failed to submit draw command buffer.")
        /\ UNCHANGED << graphicsQueue, currentFrame >>
     \/ \* submitted; vkQueuePresentKHR fails with another error
        /\ generalCommandBuffers' = SubmittedCommandBuffers
        /\ graphicsQueue' = Append(graphicsQueue, FrameSubmission(currentFrame))
        /\ pc' = "app"
        /\ frameReturn' = Returned("mossEndFrame", MOSS_RESULT_ERROR,
                                   "Failed to present swap chain image.")
        /\ UNCHANGED currentFrame
     \/ \* submitted and presented: VK_SUCCESS
        /\ generalCommandBuffers' = SubmittedCommandBuffers
        /\ graphicsQueue' = Append(graphicsQueue, FrameSubmission(currentFrame))
        /\ currentFrame' = NextFrame(currentFrame)
        /\ pc' = "app"
        /\ frameReturn' = Returned("mossEndFrame", MOSS_RESULT_SUCCESS, "")
     \/ \* submitted; present reports out-of-date or suboptimal: rebuild
        /\ generalCommandBuffers' = SubmittedCommandBuffers
        /\ graphicsQueue' = Append(graphicsQueue, FrameSubmission(currentFrame))
        /\ pc' = "recreate in end"
        /\ UNCHANGED << currentFrame, frameReturn >>
     \/ \* the buffer is not recording and the invalid calls fault
        /\ generalCommandBuffers[currentFrame].state # "recording"
        /\ pc' = "fault"
        /\ UNCHANGED << generalCommandBuffers, graphicsQueue, currentFrame,
                        frameReturn >>
  /\ IF CallsFollowed /\ graphicsQueue' # graphicsQueue
     THEN /\ submit_info' = SubmitInfo
          /\ present_info' = PresentInfo
          /\ slotCalls' = [slotCalls EXCEPT ![currentFrame].submitted = TRUE]
     ELSE UNCHANGED << submit_info, present_info, slotCalls >>
  /\ UNCHANGED << batchReturn, currentImageIndex, inFlightFences,
                  imageAvailableSemaphores, swapchain, windowFramebufferSize,
                  transferQueue, dedicatedTransfer, batchVars >>
  /\ UNCHANGED << resourceVars, cameraVars, acquireResult, frameAcquire,
                  imageVars >>

\* The window is resized while the application pumps its events.
WindowResize ==
  /\ pc = "app"
  /\ \E size \in 1 .. NumWindowSizes :
       /\ size # windowFramebufferSize
       /\ windowFramebufferSize' = size
  /\ UNCHANGED << pc, frameReturn, batchReturn, engineVars, graphicsQueue,
                  transferQueue, dedicatedTransfer, batchVars >>
  /\ UNCHANGED << resourceVars, cameraVars, acquireResult, callVars, imageVars >>

(***************************************************************************)
(* Sprite batch: data                                                      *)
(***************************************************************************)
\* Sprites the caller passes.  Coordinates are floats in the code; the model
\* takes integers with even sizes, so that size * 0.5F is exact.
SpriteA ==
  [position |-> << 0, 0 >>, size |-> << 4, 2 >>, depth |-> 0,
   uvTopLeft |-> << 0, 0 >>, uvBottomRight |-> << 1, 1 >>]

SpriteB ==
  [position |-> << 10, -6 >>, size |-> << 2, 6 >>, depth |-> 1,
   uvTopLeft |-> << 2, 3 >>, uvBottomRight |-> << 4, 5 >>]

Sprites == {SpriteA, SpriteB}

\* Every sprite array of one to n sprites.
SpriteArrays(n) == UNION {[1 .. len -> Sprites] : len \in 1 .. n}

\* One word of buffer memory: never written, a float, or two 16-bit indices.
UninitWord == << "uninit" >>

FloatWord(x) == << "float", x >>

IndexWord(lo, hi) == << "index", lo, hi >>

\* mossCreateSpriteBatch: the fields of a batch created for `capacity`
\* sprites on engine 1.
mossCreateSpriteBatch(capacity) ==
  LET vertexDataSize ==
        capacity * SizeofVertex * MOSS__VERTICIES_PER_SPRITE
      indexDataSize ==
        capacity * SizeofIndex * MOSS__INDICES_PER_SPRITE
      totalBufferSize == vertexDataSize + indexDataSize
  IN  [pOriginalEngine  |-> 1,
       bufferCapacity   |-> totalBufferSize,
       vertexDataOffset |-> 0,
       indexDataOffset  |-> vertexDataSize,
       vertexDataSize   |-> 0,
       indexDataSize    |-> 0,
       vertexCapacity   |-> vertexDataSize,
       indexCapacity    |-> indexDataSize,
       indexCount       |-> 0,
       stagingBuffer    |-> LiveHandle,
       stagingMemory    |-> LiveHandle,
       buffer           |-> LiveHandle,
       bufferMemory     |-> LiveHandle,
       isBegun          |-> FALSE]

\* The word addresses of a buffer of `bytes` bytes.
BufferWords(bytes) == 0 .. ((bytes \div WordBytes) - 1)

\* mossGenerateVerticiesFromSprite
GenerateVerticiesFullExtent(pSprite) ==
  LET bbox_left   == pSprite.position[1] - pSprite.size[1]
      bbox_right  == pSprite.position[1] + pSprite.size[1]
      bbox_bottom == pSprite.position[2] - pSprite.size[2]
      bbox_top    == pSprite.position[2] + pSprite.size[2]
  IN  << [position |-> << bbox_left, bbox_top, pSprite.depth >>,
          texture_coords |-> << pSprite.uvTopLeft[1], pSprite.uvTopLeft[2] >>],
         [position |-> << bbox_right, bbox_top, pSprite.depth >>,
          texture_coords |-> << pSprite.uvBottomRight[1], pSprite.uvTopLeft[2] >>],
         [position |-> << bbox_right, bbox_bottom, pSprite.depth >>,
          texture_coords |-> << pSprite.uvBottomRight[1], pSprite.uvBottomRight[2] >>],
         [position |-> << bbox_left, bbox_bottom, pSprite.depth >>,
          texture_coords |-> << pSprite.uvTopLeft[1], pSprite.uvBottomRight[2] >>] >>

mossGenerateVerticiesFromSprite(pSprite) ==
  LET half_width  == pSprite.size[1] \div 2
      half_height == pSprite.size[2] \div 2
      bbox_left   == pSprite.position[1] - half_width
      bbox_right  == pSprite.position[1] + half_width
      bbox_bottom == pSprite.position[2] - half_height
      bbox_top    == pSprite.position[2] + half_height
  IN  << [position |-> << bbox_left, bbox_top, pSprite.depth >>,
          texture_coords |-> << pSprite.uvTopLeft[1], pSprite.uvTopLeft[2] >>],
         [position |-> << bbox_right, bbox_top, pSprite.depth >>,
          texture_coords |-> << pSprite.uvBottomRight[1], pSprite.uvTopLeft[2] >>],
         [position |-> << bbox_right, bbox_bottom, pSprite.depth >>,
          texture_coords |-> << pSprite.uvBottomRight[1], pSprite.uvBottomRight[2] >>],
         [position |-> << bbox_left, bbox_bottom, pSprite.depth >>,
          texture_coords |-> << pSprite.uvTopLeft[1], pSprite.uvBottomRight[2] >>] >>

\* The five words of one Moss__Vertex.
VertexWords(v) ==
  << FloatWord(v.position[1]), FloatWord(v.position[2]),
     FloatWord(v.position[3]),
     FloatWord(v.texture_coords[1]), FloatWord(v.texture_coords[2]) >>

\* The twenty words of the four vertices of a sprite.
SpriteVertexWords(pSprite) ==
  LET v == mossGenerateVerticiesFromSprite(pSprite)
  IN  VertexWords(v[1]) \o VertexWords(v[2]) \o VertexWords(v[3])
        \o VertexWords(v[4])

\* A value stored into a uint16_t.
Uint16(x) == x % Uint16Range

\* pIndices[ 0 .. 5 ] = base_vertex + 0, 1, 2, 2, 3, 0
SpriteIndices(base_vertex) ==
  << Uint16(base_vertex + 0), Uint16(base_vertex + 1), Uint16(base_vertex + 2),
     Uint16(base_vertex + 2), Uint16(base_vertex + 3), Uint16(base_vertex + 0) >>

\* The three words of the six indices.
IndexWords(ix) ==
  << IndexWord(ix[1], ix[2]), IndexWord(ix[3], ix[4]), IndexWord(ix[5], ix[6]) >>

\* Stores through a pointer into mapped memory: `words` from byte offset
\* `offset` on.  Words outside the memory the model tracks are not kept.
StoreWords(mem, offset, words) ==
  LET first == offset \div WordBytes
  IN  [w \in DOMAIN mem |->
         IF w >= first /\ w < first + Len(words)
         THEN words[w - first + 1]
         ELSE mem[w]]

\* The counters after one sprite of the loop.
AdvanceCountersShort(batch) ==
  [batch EXCEPT
     !.vertexDataSize = @ + SizeofVertex * MOSS__VERTICIES_PER_SPRITE,
     !.indexDataSize  = @ + SizeofIndex * MOSS__INDICES_PER_SPRITE,
     !.indexCount     = @ + MOSS__VERTICIES_PER_SPRITE]

AdvanceCounters(batch) ==
  [batch EXCEPT
     !.vertexDataSize = @ + SizeofVertex * MOSS__VERTICIES_PER_SPRITE,
     !.indexDataSize  = @ + SizeofIndex * MOSS__INDICES_PER_SPRITE,
     !.indexCount     = @ + MOSS__INDICES_PER_SPRITE]

\* base_vertex before the loop
BaseVertexFromZero(batch) == 0

InitialBaseVertex(batch) == Uint16(batch.vertexDataSize \div SizeofVertex)

\* The loop of mossAddSpritesToSpriteBatch over pSprites[ i .. ], on the loop
\* state st: the batch, the mapped memory, the three cursors, and the six
\* indices of the sprite stored last.
RECURSIVE AddLoop(_, _, _)
AddLoop(st, pSprites, i) ==
  IF i > Len(pSprites)
  THEN st
  ELSE LET indices == SpriteIndices(st.base_vertex)
           withVertices ==
             StoreWords(st.mem, st.pVertices, SpriteVertexWords(pSprites[i]))
           withIndices ==
             StoreWords(withVertices, st.pIndices, IndexWords(indices))
       IN  AddLoop([batch       |-> AdvanceCounters(st.batch),
                    mem         |-> withIndices,
                    pVertices   |-> st.pVertices
                                      + SizeofVertex * MOSS__VERTICIES_PER_SPRITE,
                    pIndices    |-> st.pIndices
                                      + SizeofIndex * MOSS__INDICES_PER_SPRITE,
                    base_vertex |-> Uint16(st.base_vertex
                                             + MOSS__VERTICIES_PER_SPRITE),
                    indices     |-> indices],
                   pSprites, i + 1)

\* The loop state at the first iteration.
AddLoopStart(batch, mem, lastIndices) ==
  [batch       |-> batch,
   mem         |-> mem,
   pVertices   |-> batch.vertexDataOffset + batch.vertexDataSize,
   pIndices    |-> batch.indexDataOffset + batch.indexDataSize,
   base_vertex |-> InitialBaseVertex(batch),
   indices     |-> lastIndices]

\* vkCmdCopyBuffer of one region with equal source and destination offsets.
CopyRegion(dst, src, offset, size) ==
  LET first == offset \div WordBytes
      last  == (offset + size) \div WordBytes
  IN  [w \in DOMAIN dst |->
         IF w >= first /\ w < last /\ w \in DOMAIN src THEN src[w] ELSE dst[w]]

\* The two copies mossEndSpriteBatch records, executed: the vertex region,
\* then the index region.
ExecuteCopy(cmd) ==
  CopyRegion(CopyRegion(deviceBuffer, stagingMemory,
                        spriteBatch.vertexDataOffset, cmd.vertexBytes),
             stagingMemory, spriteBatch.indexDataOffset, cmd.indexBytes)

\* The queue the transfer command buffer is submitted to.
TransferSubmission ==
  [kind |-> "copy", slot |-> -1, draws |-> 0,
   vertexBytes |-> spriteBatch.vertexDataSize,
   indexBytes |-> spriteBatch.indexDataSize]

\* The transfers submitted and not yet executed.
PendingTransfers ==
  Cardinality({i \in DOMAIN graphicsQueue : graphicsQueue[i].kind = "copy"})
    + Len(transferQueue)

\* vkQueueWaitIdle (transferQueue)
NoQueueWaitIdle == TRUE

QueueWaitIdle ==
  IF dedicatedTransfer THEN transferQueue = << >> ELSE graphicsQueue = << >>

\* Some store of the call lands beyond the mapped range.
AddOverruns(batch, count) ==
  batch.indexDataOffset + batch.indexDataSize
    + count * SizeofIndex * MOSS__INDICES_PER_SPRITE > batch.bufferCapacity

\* No sprite added since the batch was created, begun or cleared.
NoIndicesWritten == [k |-> -1, indices |-> << >>]

\* The capacity the batch was created with, in sprites.
Capacity(batch) ==
  batch.vertexCapacity \div (SizeofVertex * MOSS__VERTICIES_PER_SPRITE)

\* The batch has not been handed to mossDestroySpriteBatch: a caller passes
\* no destroyed batch to any call.
BatchExists(batch) == batch.buffer = LiveHandle

\* if (!pSpriteBatch->isBegun): the check of add and of end.
NeverNotBegun(batch) == FALSE

NotBegun(batch) == ~batch.isBegun

\* if (pSpriteBatch->isBegun): the check of begin.
NeverAlreadyBegun(batch) == FALSE

AlreadyBegun(batch) == batch.isBegun

\* if (pSpriteBatch->indexCount == 0) { return MOSS_RESULT_SUCCESS; }
NothingToDraw(batch) == batch.indexCount = 0

\* if (pSpriteBatch->isBegun): the check of draw.
NeverNotEnded(batch) == FALSE

NotEnded(batch) == batch.isBegun

\* if (pSpriteBatch->pOriginalEngine != pEngine)
AnyEngine(batch, pEngine) == FALSE

DifferentEngine(batch, pEngine) == batch.pOriginalEngine # pEngine

\* The fields mossClearSpriteBatch assigns.
ClearedKeepingIndexCount(batch) ==
  [batch EXCEPT !.vertexDataSize = 0, !.indexDataSize = 0, !.isBegun = FALSE]

ClearedBatch(batch) ==
  [batch EXCEPT !.vertexDataSize = 0, !.indexDataSize = 0, !.indexCount = 0,
                !.isBegun = FALSE]

\* The fields a successful mossBeginSpriteBatch assigns.
BegunKeepingData(batch) == [batch EXCEPT !.isBegun = TRUE]

BegunBatch(batch) ==
  [batch EXCEPT !.isBegun = TRUE, !.vertexDataSize = 0, !.indexDataSize = 0,
                !.indexCount = 0]

\* The field a successful mossEndSpriteBatch assigns.
EndedAndCleared(batch) ==
  [batch EXCEPT !.isBegun = FALSE, !.indexCount = 0]

EndedBatch(batch) == [batch EXCEPT !.isBegun = FALSE]

\* if (result != MOSS_RESULT_SUCCESS) { ... return result; } comes before
\* pSpriteBatch->isBegun = false: the batch a failed transfer leaves.
EndedAllTheSame(batch) == EndedBatch(batch)

EndFailedBatch(batch) == batch

(***************************************************************************)
(* Sprite batch: operations                                                *)
(***************************************************************************)
mossClearSpriteBatch ==
  /\ pc = "app"
  /\ BatchExists(spriteBatch)
  /\ spriteBatch' = ClearedBatch(spriteBatch)
  /\ spritesAdded' = 0
  /\ pIndicesWritten' = NoIndicesWritten
  /\ batchReturn' = Returned("mossClearSpriteBatch", MOSS_RESULT_SUCCESS, "")
  /\ UNCHANGED << pc, frameReturn, engineVars, windowFramebufferSize,
                  graphicsQueue, transferQueue, dedicatedTransfer,
                  stagingMemory, deviceBuffer >>
  /\ UNCHANGED << resourceVars, cameraVars, acquireResult, callVars, imageVars >>

mossBeginSpriteBatch ==
  /\ pc = "app"
  /\ BatchExists(spriteBatch)
  /\ \/ /\ AlreadyBegun(spriteBatch)
        /\ batchReturn' = Returned("mossBeginSpriteBatch", MOSS_RESULT_ERROR,
                                   "Sprite batch already begun.")
        /\ UNCHANGED << spriteBatch, spritesAdded, pIndicesWritten >>
     \/ /\ ~AlreadyBegun(spriteBatch)
        /\ spriteBatch' = BegunBatch(spriteBatch)
        /\ spritesAdded' = 0
        /\ pIndicesWritten' = NoIndicesWritten
        /\ batchReturn' = Returned("mossBeginSpriteBatch", MOSS_RESULT_SUCCESS, "")
  /\ UNCHANGED << pc, frameReturn, engineVars, windowFramebufferSize,
                  graphicsQueue, transferQueue, dedicatedTransfer,
                  stagingMemory, deviceBuffer >>
  /\ UNCHANGED << resourceVars, cameraVars, acquireResult, callVars, imageVars >>

mossAddSpritesToSpriteBatch(pSprites) ==
  /\ pc = "app"
  /\ BatchExists(spriteBatch)
  /\ spritesAdded + Len(pSprites) <= Capacity(spriteBatch) + MaxOverrun
  /\ \/ /\ NotBegun(spriteBatch)
        /\ batchReturn' = Returned("mossAddSpritesToSpriteBatch", MOSS_RESULT_ERROR,
                                   "Sprite batch not begun.")
        /\ UNCHANGED << pc, spriteBatch, stagingMemory, spritesAdded,
                        pIndicesWritten >>
     \/ /\ ~NotBegun(spriteBatch)
        /\ LET st == AddLoop(AddLoopStart(spriteBatch, stagingMemory,
                                          pIndicesWritten.indices),
                             pSprites, 1)
           IN  /\ spriteBatch' = st.batch
               /\ stagingMemory' = st.mem
               /\ pIndicesWritten' =
                    IF Len(pSprites) = 0
                    THEN pIndicesWritten
                    ELSE [k |-> spritesAdded + Len(pSprites) - 1,
                          indices |-> st.indices]
        /\ spritesAdded' = spritesAdded + Len(pSprites)
        /\ batchReturn' = Returned("mossAddSpritesToSpriteBatch",
                                   MOSS_RESULT_SUCCESS, "")
        /\ UNCHANGED pc
     \/ \* a store beyond the mapped range faults
        /\ ~NotBegun(spriteBatch)
        /\ AddOverruns(spriteBatch, Len(pSprites))
        /\ pc' = "fault"
        /\ UNCHANGED << batchReturn, spriteBatch, stagingMemory, spritesAdded,
                        pIndicesWritten >>
  /\ UNCHANGED << frameReturn, engineVars, windowFramebufferSize,
                  graphicsQueue, transferQueue, dedicatedTransfer,
                  deviceBuffer >>
  /\ UNCHANGED << resourceVars, cameraVars, acquireResult, callVars, imageVars >>

\* mossEndSpriteBatch up to its vkQueueWaitIdle.
mossEndSpriteBatch ==
  /\ pc = "app"
  /\ BatchExists(spriteBatch)
  /\ \/ /\ NotBegun(spriteBatch)
        /\ batchReturn' = Returned("mossEndSpriteBatch", MOSS_RESULT_ERROR,
                                   "Sprite batch not begun.")
        /\ UNCHANGED << pc, graphicsQueue, transferQueue >>
     \/ \* the one-time command buffer is not allocated or not begun
        /\ ~NotBegun(spriteBatch)
        /\ batchReturn' = Returned("mossEndSpriteBatch", MOSS_RESULT_ERROR,
                                   "Failed to begin one time command buffer.")
        /\ UNCHANGED << pc, graphicsQueue, transferQueue >>
     \/ \* vkEndCommandBuffer or vkQueueSubmit of the transfer fails
        /\ ~NotBegun(spriteBatch)
        /\ batchReturn' = Returned("mossEndSpriteBatch", MOSS_RESULT_ERROR,
                                   "Failed to end one time command buffer.")
        /\ UNCHANGED << pc, graphicsQueue, transferQueue >>
     \/ \* the copies are submitted to the transfer queue
        /\ ~NotBegun(spriteBatch)
        /\ PendingTransfers < MaxTransfers
        /\ IF dedicatedTransfer
           THEN /\ transferQueue' = Append(transferQueue, TransferSubmission)
                /\ UNCHANGED graphicsQueue
           ELSE /\ graphicsQueue' = Append(graphicsQueue, TransferSubmission)
                /\ UNCHANGED transferQueue
        /\ pc' = "vkQueueWaitIdle"
        /\ UNCHANGED batchReturn
  /\ UNCHANGED << frameReturn, engineVars, windowFramebufferSize,
                  dedicatedTransfer, batchVars >>
  /\ UNCHANGED << resourceVars, cameraVars, acquireResult, callVars, imageVars >>

\* mossEndSpriteBatch from the return of vkQueueWaitIdle.
mossEndSpriteBatch_return ==
  /\ pc = "vkQueueWaitIdle"
  /\ \/ /\ QueueWaitIdle
        /\ spriteBatch' = EndedBatch(spriteBatch)
        /\ batchReturn' = Returned("mossEndSpriteBatch", MOSS_RESULT_SUCCESS, "")
     \/ \* vkQueueWaitIdle reports an error
        /\ batchReturn' = Returned("mossEndSpriteBatch", MOSS_RESULT_ERROR,
                                   "Failed to end one time command buffer.")
        /\ spriteBatch' = EndFailedBatch(spriteBatch)
  /\ pc' = "app"
  /\ UNCHANGED << frameReturn, engineVars, windowFramebufferSize,
                  graphicsQueue, transferQueue, dedicatedTransfer,
                  stagingMemory, deviceBuffer, spritesAdded, pIndicesWritten >>
  /\ UNCHANGED << resourceVars, cameraVars, acquireResult, callVars, imageVars >>

\* mossDrawSpriteBatch (pEngine, pSpriteBatch); engine 1 is the engine
\* modelled, any other number another engine.
mossDrawSpriteBatch(pEngine) ==
  /\ pc = "app"
  /\ BatchExists(spriteBatch)
  /\ \/ /\ NothingToDraw(spriteBatch)
        /\ batchReturn' = Returned("mossDrawSpriteBatch", MOSS_RESULT_SUCCESS, "")
        /\ UNCHANGED << pc, generalCommandBuffers >>
     \/ /\ ~NothingToDraw(spriteBatch)
        /\ NotEnded(spriteBatch)
        /\ batchReturn' = Returned("mossDrawSpriteBatch", MOSS_RESULT_ERROR,
                                   "Sprite batch not ended.")
        /\ UNCHANGED << pc, generalCommandBuffers >>
     \/ /\ ~NothingToDraw(spriteBatch)
        /\ ~NotEnded(spriteBatch)
        /\ DifferentEngine(spriteBatch, pEngine)
        /\ batchReturn' = Returned("mossDrawSpriteBatch", MOSS_RESULT_ERROR,
                                   "Sprite batch created with different engine.")
        /\ UNCHANGED << pc, generalCommandBuffers >>
     \/ \* the bind and draw commands go into the slot's recording buffer
        /\ ~NothingToDraw(spriteBatch)
        /\ ~NotEnded(spriteBatch)
        /\ ~DifferentEngine(spriteBatch, pEngine)
        /\ generalCommandBuffers[currentFrame].state = "recording"
        /\ generalCommandBuffers[currentFrame].draws < MaxDraws
        /\ generalCommandBuffers' =
             [generalCommandBuffers EXCEPT ![currentFrame].draws = @ + 1]
        /\ batchReturn' = Returned("mossDrawSpriteBatch", MOSS_RESULT_SUCCESS, "")
        /\ UNCHANGED pc
     \/ \* the slot's buffer is not recording: the commands are invalid
        \* usage (nothing tests the state of the buffer), which a driver
        \* drops
        /\ ~NothingToDraw(spriteBatch)
        /\ ~NotEnded(spriteBatch)
        /\ ~DifferentEngine(spriteBatch, pEngine)
        /\ generalCommandBuffers[currentFrame].state # "recording"
        /\ batchReturn' = Returned("mossDrawSpriteBatch", MOSS_RESULT_SUCCESS, "")
        /\ UNCHANGED << pc, generalCommandBuffers >>
     \/ \* or which a driver that does not test the state of the buffer
        \* writes into it all the same
        /\ ~NothingToDraw(spriteBatch)
        /\ ~NotEnded(spriteBatch)
        /\ ~DifferentEngine(spriteBatch, pEngine)
        /\ generalCommandBuffers[currentFrame].state # "recording"
        /\ generalCommandBuffers[currentFrame].draws < MaxDraws
        /\ generalCommandBuffers' =
             [generalCommandBuffers EXCEPT ![currentFrame].draws = @ + 1]
        /\ batchReturn' = Returned("mossDrawSpriteBatch", MOSS_RESULT_SUCCESS, "")
        /\ UNCHANGED pc
     \/ \* or on which it faults
        /\ ~NothingToDraw(spriteBatch)
        /\ ~NotEnded(spriteBatch)
        /\ ~DifferentEngine(spriteBatch, pEngine)
        /\ generalCommandBuffers[currentFrame].state # "recording"
        /\ pc' = "fault"
        /\ UNCHANGED << batchReturn, generalCommandBuffers >>
  /\ UNCHANGED << frameReturn, currentFrame, currentImageIndex, inFlightFences,
                  imageAvailableSemaphores, swapchain, windowFramebufferSize,
                  graphicsQueue, transferQueue, dedicatedTransfer, batchVars >>
  /\ UNCHANGED << resourceVars, cameraVars, acquireResult, callVars, imageVars >>

\* The calls of mossDestroySpriteBatch after its vkDeviceWaitIdle.
DestroySpriteBatchCalls(batch) ==
  << VkCall("vkUnmapMemory", "stagingMemory", batch.stagingMemory) >>
    \o ReleaseCall("vkFreeMemory", "stagingMemory", batch.stagingMemory)
    \o ReleaseCall("vkDestroyBuffer", "stagingBuffer", batch.stagingBuffer)
    \o ReleaseCall("vkFreeMemory", "bufferMemory", batch.bufferMemory)
    \o ReleaseCall("vkDestroyBuffer", "buffer", batch.buffer)
    \o << VkCall("free", "pSpriteBatch", LiveHandle) >>

\* What the caller's pointer refers to after them.
DestroyedBatch(batch) ==
  [batch EXCEPT !.stagingMemory = Released(@), !.stagingBuffer = Released(@),
                !.bufferMemory = Released(@), !.buffer = Released(@)]

\* mossDestroySpriteBatch (pSpriteBatch) up to its vkDeviceWaitIdle;
\* pSpriteBatch is NULL or the batch.
mossDestroySpriteBatch(pSpriteBatch) ==
  /\ pc = "app"
  /\ \/ /\ pSpriteBatch = "NULL"
        /\ batchReturn' = Returned("mossDestroySpriteBatch", "void", "NULL")
        /\ UNCHANGED pc
     \/ /\ pSpriteBatch # "NULL"
        /\ BatchExists(spriteBatch)
        /\ pc' = "vkDeviceWaitIdle in destroy"
        /\ UNCHANGED batchReturn
  /\ UNCHANGED << frameReturn, engineVars, windowFramebufferSize,
                  graphicsQueue, transferQueue, dedicatedTransfer, batchVars >>
  /\ UNCHANGED << resourceVars, cameraVars, acquireResult, callVars, imageVars >>

\* mossDestroySpriteBatch from the return of vkDeviceWaitIdle.
mossDestroySpriteBatch_free ==
  /\ pc = "vkDeviceWaitIdle in destroy"
  /\ DeviceIdle
  /\ vkCalls' = DestroySpriteBatchCalls(spriteBatch)
  /\ spriteBatch' = DestroyedBatch(spriteBatch)
  /\ batchReturn' = Returned("mossDestroySpriteBatch", "void", "")
  /\ pc' = "app"
  /\ UNCHANGED << frameReturn, engineVars, windowFramebufferSize,
                  graphicsQueue, transferQueue, dedicatedTransfer,
                  stagingMemory, deviceBuffer, spritesAdded, pIndicesWritten >>
  /\ UNCHANGED << surface, swapchainState, beforeRebuild, cameraVars,
                  acquireResult, callVars, imageVars >>

(***************************************************************************)
(* mossCreateEngine, mossDestroyEngine and the surface                     *)
(***************************************************************************)
\* The window system changes what the surface supports while the
\* application pumps its events.
SurfaceChange(surfaces) ==
  /\ pc = "app"
  /\ \E newSurface \in surfaces \ {surface} : surface' = newSurface
  /\ UNCHANGED << pc, frameReturn, batchReturn, engineVars,
                  windowFramebufferSize, graphicsQueue, transferQueue,
                  dedicatedTransfer, batchVars, swapchainState, vkCalls,
                  beforeRebuild, cameraVars, acquireResult, callVars, imageVars >>

\* mossCreateEngine: a failure of any step calls mossDestroyEngine on what
\* was built and returns error; nothing is submitted before it, so the
\* vkDeviceWaitIdle of that mossDestroyEngine returns at once.
mossCreateEngine ==
  /\ pc = "no engine"
  /\ \E fail \in BootstrapFailures, beyond \in ReadsBeyond :
       LET extent == windowFramebufferSize
           built == CreateEngineRun(extent, fail)
           run == IF built.ok THEN built
                  ELSE DestroyEngineRun(built.st, built.calls, beyond)
       IN /\ swapchainState' = run.st
          /\ vkCalls' = run.calls
          /\ IF built.ok
             THEN /\ pc' = "app"
                  /\ swapchain' = [handle |-> TRUE, extent |-> extent]
                  /\ frameReturn' =
                       Returned("mossCreateEngine", MOSS_RESULT_SUCCESS, "")
             ELSE /\ pc' = "no engine"
                  /\ swapchain' = [handle |-> FALSE, extent |-> 0]
                  /\ frameReturn' =
                       Returned("mossCreateEngine", MOSS_RESULT_ERROR, fail.step)
  /\ currentFrame' = 0
  /\ currentImageIndex' = 0
  /\ inFlightFences' = moss__createInFlightFences
  /\ imageAvailableSemaphores' = [s \in FrameSlots |-> 0]
  /\ generalCommandBuffers' = [s \in FrameSlots |-> InitialCommandBuffer]
  /\ camera' = 0
  /\ cameraUboBufferMappedMemoryBlocks' = [s \in FrameSlots |-> camera']
  /\ beforeRebuild' = InitialSwapchainState
  /\ acquireResult' = "none"
  /\ frameAcquire' = NoAcquire
  /\ submit_info' = NoSubmit
  /\ present_info' = NoPresent
  /\ slotCalls' = NoSlotCalls
  /\ UNCHANGED << batchReturn, windowFramebufferSize, graphicsQueue,
                  transferQueue, dedicatedTransfer, batchVars, surface,
                  imageVars >>

\* mossDestroyEngine up to its vkDeviceWaitIdle.
mossDestroyEngine ==
  /\ pc = "app"
  /\ pc' = "vkDeviceWaitIdle in mossDestroyEngine"
  /\ UNCHANGED << frameReturn, batchReturn, engineVars, windowFramebufferSize,
                  graphicsQueue, transferQueue, dedicatedTransfer, batchVars,
                  resourceVars, cameraVars, acquireResult, callVars, imageVars >>

\* mossDestroyEngine from the return of vkDeviceWaitIdle.
mossDestroyEngine_cleanup ==
  /\ pc = "vkDeviceWaitIdle in mossDestroyEngine"
  /\ DeviceIdle
  /\ \E beyond \in ReadsBeyond :
       LET run == DestroyEngineRun(swapchainState, << >>, beyond)
       IN /\ swapchainState' = run.st
          /\ vkCalls' = run.calls
  /\ swapchain' = [handle |-> FALSE, extent |-> 0]
  /\ frameReturn' = Returned("mossDestroyEngine", "void", "")
  /\ pc' = "no engine"
  /\ UNCHANGED << batchReturn, currentFrame, currentImageIndex, inFlightFences,
                  imageAvailableSemaphores, generalCommandBuffers,
                  windowFramebufferSize, graphicsQueue, transferQueue,
                  dedicatedTransfer, batchVars, surface, beforeRebuild,
                  cameraVars, acquireResult, callVars, imageVars >>

(***************************************************************************)
(* The GPU                                                                 *)
(***************************************************************************)
\* The graphics queue completes its oldest batch.  A frame starts only when
\* the semaphore it waits on is signaled; its completion signals the slot's
\* fence and returns the command buffer to the executable state.
GraphicsQueueExecute ==
  /\ graphicsQueue # << >>
  /\ LET batch == Head(graphicsQueue)
     IN  \/ /\ batch.kind = "frame"
            /\ imageAvailableSemaphores[batch.slot] > 0
            /\ imageAvailableSemaphores' =
                 [imageAvailableSemaphores EXCEPT ![batch.slot] = @ - 1]
            /\ inFlightFences' = [inFlightFences EXCEPT ![batch.slot] = TRUE]
            /\ generalCommandBuffers' =
                 [generalCommandBuffers EXCEPT ![batch.slot].state =
                    IF @ = "pending" THEN "executable" ELSE @]
            /\ UNCHANGED deviceBuffer
         \/ /\ batch.kind = "copy"
            /\ deviceBuffer' = ExecuteCopy(batch)
            /\ UNCHANGED << imageAvailableSemaphores, inFlightFences,
                            generalCommandBuffers >>
  /\ graphicsQueue' = Tail(graphicsQueue)
  /\ UNCHANGED << pc, frameReturn, batchReturn, currentFrame, currentImageIndex,
                  swapchain, windowFramebufferSize, transferQueue,
                  dedicatedTransfer, spriteBatch, stagingMemory, spritesAdded,
                  pIndicesWritten >>
  /\ UNCHANGED << resourceVars, cameraVars, acquireResult, callVars, imageVars >>

\* The dedicated transfer queue completes its oldest batch.
TransferQueueExecute ==
  /\ transferQueue # << >>
  /\ deviceBuffer' = ExecuteCopy(Head(transferQueue))
  /\ transferQueue' = Tail(transferQueue)
  /\ UNCHANGED << pc, frameReturn, batchReturn, engineVars,
                  windowFramebufferSize, graphicsQueue, dedicatedTransfer,
                  spriteBatch, stagingMemory, spritesAdded, pIndicesWritten >>
  /\ UNCHANGED << resourceVars, cameraVars, acquireResult, callVars, imageVars >>

(***************************************************************************)
(* The depth test at one pixel                                             *)
(***************************************************************************)
\* Depths are floats in the code; the model counts them in units of 0.5F.
\* clearValues[ 1 ].depthStencil = { 1.0F, 0 }
ClearDepth == 2

\* The depths a sprite is given: 0.0F, 0.5F and 1.0F.
SpriteDepths == 0 .. ClearDepth

\* The contents of the attachments before the first render pass, and the
\* draw of a specification that does not follow the pixel.
UndefinedAttachments == [color |-> -1, depth |-> -1]

NothingDrawn == [sprites |-> << >>, next |-> 0]

\* The vertex shader hands the z of the vertex to the rasterizer as it is
\* (the camera holds a scale and an offset of x and y only), and the
\* viewport maps it onto minDepth = 0.0F .. maxDepth = 1.0F.
VertexShaderDepth(position) == position[3]

\* depthTestEnable = VK_TRUE, depthCompareOp = VK_COMPARE_OP_LESS
depthCompareOp(fragmentDepth, storedDepth) == fragmentDepth < storedDepth

\* vkCmdBeginRenderPass: loadOp = VK_ATTACHMENT_LOAD_OP_CLEAR on both
\* attachments; colour 0 is the clear colour.
vkCmdBeginRenderPass ==
  /\ drawIndexed.sprites # << >>
  /\ drawIndexed.next = 0
  /\ attachments' = [color |-> 0, depth |-> ClearDepth]
  /\ drawIndexed' = [drawIndexed EXCEPT !.next = 1]
  /\ UNCHANGED << pc, frameReturn, batchReturn, engineVars,
                  windowFramebufferSize, graphicsQueue, transferQueue,
                  dedicatedTransfer, batchVars, resourceVars, cameraVars,
                  acquireResult, callVars, transition >>

\* The next sprite of the draw call at the pixel: its fragment passes the
\* depth test or is dropped; depthWriteEnable = VK_TRUE stores the depth of
\* a fragment that passes.  Colour k is the k-th sprite of the batch.
vkCmdDrawIndexed ==
  /\ drawIndexed.next \in 1 .. Len(drawIndexed.sprites)
  /\ LET pSprite == drawIndexed.sprites[drawIndexed.next]
         fragmentDepth ==
           VertexShaderDepth(mossGenerateVerticiesFromSprite(pSprite)[1].position)
     IN attachments' =
          IF depthCompareOp(fragmentDepth, attachments.depth)
          THEN [color |-> drawIndexed.next, depth |-> fragmentDepth]
          ELSE attachments
  /\ drawIndexed' = [drawIndexed EXCEPT !.next = @ + 1]
  /\ UNCHANGED << pc, frameReturn, batchReturn, engineVars,
                  windowFramebufferSize, graphicsQueue, transferQueue,
                  dedicatedTransfer, batchVars, resourceVars, cameraVars,
                  acquireResult, callVars, transition >>

(***************************************************************************)
(* Image layout transitions                                                *)
(***************************************************************************)
VK_IMAGE_LAYOUT_UNDEFINED == "VK_IMAGE_LAYOUT_UNDEFINED"

VK_IMAGE_LAYOUT_GENERAL == "VK_IMAGE_LAYOUT_GENERAL"

VK_IMAGE_LAYOUT_TRANSFER_DST_OPTIMAL == "VK_IMAGE_LAYOUT_TRANSFER_DST_OPTIMAL"

VK_IMAGE_LAYOUT_SHADER_READ_ONLY_OPTIMAL == "VK_IMAGE_LAYOUT_SHADER_READ_ONLY_OPTIMAL"

VK_IMAGE_LAYOUT_DEPTH_STENCIL_ATTACHMENT_OPTIMAL ==
  "VK_IMAGE_LAYOUT_DEPTH_STENCIL_ATTACHMENT_OPTIMAL"

\* The layouts a caller can name in info->old_layout and info->new_layout.
VkImageLayouts ==
  {VK_IMAGE_LAYOUT_UNDEFINED, VK_IMAGE_LAYOUT_GENERAL,
   VK_IMAGE_LAYOUT_TRANSFER_DST_OPTIMAL,
   VK_IMAGE_LAYOUT_SHADER_READ_ONLY_OPTIMAL,
   VK_IMAGE_LAYOUT_DEPTH_STENCIL_ATTACHMENT_OPTIMAL}

\* The Vulkan call of a one-time command buffer that fails first, or
\* VK_SUCCESS when none does.
OneTimeResults ==
  {"vkAllocateCommandBuffers", "vkBeginCommandBuffer", "vkEndCommandBuffer",
   "vkQueueSubmit", "vkQueueWaitIdle", VK_SUCCESS}

\* Before the first transition is asked for.
NoTransition ==
  [calls |-> 0,
   info |-> [old_layout |-> NotFollowed, new_layout |-> NotFollowed],
   result |-> "none",
   command_buffer |-> << >>,
   queue |-> << >>,
   allocated |-> 0]

\* if / else if / else if of "Determine source and destination": the pairs
\* that do not reach the final else.
EveryTransitionSupported(old_layout, new_layout) == TRUE

SupportedTransition(old_layout, new_layout) ==
  \/ /\ old_layout = VK_IMAGE_LAYOUT_UNDEFINED
     /\ new_layout = VK_IMAGE_LAYOUT_TRANSFER_DST_OPTIMAL
  \/ /\ old_layout = VK_IMAGE_LAYOUT_TRANSFER_DST_OPTIMAL
     /\ new_layout = VK_IMAGE_LAYOUT_SHADER_READ_ONLY_OPTIMAL
  \/ /\ old_layout = VK_IMAGE_LAYOUT_UNDEFINED
     /\ new_layout = VK_IMAGE_LAYOUT_DEPTH_STENCIL_ATTACHMENT_OPTIMAL

\* VkImageMemoryBarrier barrier and the two stages, as they stand at
\* vkCmdPipelineBarrier: the access masks and the stages start at 0.
ImageMemoryBarrier(old_layout, new_layout) ==
  LET barrier ==
        [oldLayout |-> old_layout,
         newLayout |-> new_layout,
         aspectMask |->
           IF new_layout = VK_IMAGE_LAYOUT_DEPTH_STENCIL_ATTACHMENT_OPTIMAL
           THEN "VK_IMAGE_ASPECT_DEPTH_BIT"
           ELSE "VK_IMAGE_ASPECT_COLOR_BIT",
         srcAccessMask |-> "0",
         dstAccessMask |-> "0",
         sourceStage |-> "0",
         destinationStage |-> "0"]
  IN IF /\ old_layout = VK_IMAGE_LAYOUT_UNDEFINED
        /\ new_layout = VK_IMAGE_LAYOUT_TRANSFER_DST_OPTIMAL
     THEN [barrier EXCEPT
             !.dstAccessMask = "VK_ACCESS_TRANSFER_WRITE_BIT",
             !.sourceStage = "VK_PIPELINE_STAGE_TOP_OF_PIPE_BIT",
             !.destinationStage = "VK_PIPELINE_STAGE_TRANSFER_BIT"]
     ELSE IF /\ old_layout = VK_IMAGE_LAYOUT_TRANSFER_DST_OPTIMAL
             /\ new_layout = VK_IMAGE_LAYOUT_SHADER_READ_ONLY_OPTIMAL
     THEN [barrier EXCEPT
             !.srcAccessMask = "VK_ACCESS_TRANSFER_WRITE_BIT",
             !.dstAccessMask = "VK_ACCESS_SHADER_READ_BIT",
             !.sourceStage = "VK_PIPELINE_STAGE_TRANSFER_BIT",
             !.destinationStage = "VK_PIPELINE_STAGE_FRAGMENT_SHADER_BIT"]
     ELSE IF /\ old_layout = VK_IMAGE_LAYOUT_UNDEFINED
             /\ new_layout = VK_IMAGE_LAYOUT_DEPTH_STENCIL_ATTACHMENT_OPTIMAL
     THEN [barrier EXCEPT
             !.dstAccessMask = "VK_ACCESS_DEPTH_STENCIL_ATTACHMENT_READ_BIT | WRITE_BIT",
             !.sourceStage = "VK_PIPELINE_STAGE_TOP_OF_PIPE_BIT",
             !.destinationStage = "VK_PIPELINE_STAGE_EARLY_FRAGMENT_TESTS_BIT"]
     ELSE barrier

\* moss_vk__transition_image_layout, from its call to its return: begin a
\* one-time command buffer, determine the barrier or return on a pair that
\* is not supported, record the barrier, end the command buffer (end,
\* submit to info->transfer_queue, wait for the queue, free).  A return
\* after the command buffer was begun and before it is freed leaves it
\* allocated.
moss_vk__transition_image_layout(old_layout, new_layout) ==
  /\ transition.calls < MaxTransitions
  /\ \E vk \in OneTimeResults :
       LET begun == vk \notin {"vkAllocateCommandBuffers", "vkBeginCommandBuffer"}
           recorded == begun /\ SupportedTransition(old_layout, new_layout)
           submitted == recorded /\ vk \in {"vkQueueWaitIdle", VK_SUCCESS}
           freed == \/ vk = "vkBeginCommandBuffer"
                    \/ recorded /\ vk = VK_SUCCESS
           barrier == ImageMemoryBarrier(old_layout, new_layout)
       IN transition' =
            [calls |-> transition.calls + 1,
             info |-> [old_layout |-> old_layout, new_layout |-> new_layout],
             result |-> IF recorded /\ vk = VK_SUCCESS
                        THEN MOSS_RESULT_SUCCESS
                        ELSE MOSS_RESULT_ERROR,
             command_buffer |-> IF recorded THEN << barrier >> ELSE << >>,
             queue |-> IF submitted
                       THEN Append(transition.queue, barrier)
                       ELSE transition.queue,
             allocated |-> IF vk = "vkAllocateCommandBuffers" \/ freed
                           THEN transition.allocated
                           ELSE transition.allocated + 1]
  /\ UNCHANGED << pc, frameReturn, batchReturn, engineVars,
                  windowFramebufferSize, graphicsQueue, transferQueue,
                  dedicatedTransfer, batchVars, resourceVars, cameraVars,
                  acquireResult, callVars, attachments, drawIndexed >>

(***************************************************************************)
(* Specifications                                                          *)
(***************************************************************************)
\* The engine after mossCreateEngine and a batch after
\* mossCreateSpriteBatch, on a device with or without a dedicated transfer
\* queue family.
InitFrames ==
  /\ pc = "app"
  /\ frameReturn = Returned("none", MOSS_RESULT_SUCCESS, "")
  /\ batchReturn = Returned("mossCreateSpriteBatch", MOSS_RESULT_SUCCESS, "")
  /\ currentFrame = 0
  /\ currentImageIndex = 0
  /\ inFlightFences = moss__createInFlightFences
  /\ imageAvailableSemaphores = [s \in FrameSlots |-> 0]
  /\ generalCommandBuffers = [s \in FrameSlots |-> InitialCommandBuffer]
  /\ windowFramebufferSize = 1
  /\ swapchain = [handle |-> TRUE, extent |-> 1]
  /\ graphicsQueue = << >>
  /\ transferQueue = << >>
  /\ dedicatedTransfer \in BOOLEAN
  /\ camera = 0
  /\ cameraUboBufferMappedMemoryBlocks = [s \in FrameSlots |-> camera]

\* The same engine with the handles of its swapchain and the results of its
\* acquires left out.
InitEngine ==
  /\ InitFrames
  /\ surface = NotFollowed
  /\ swapchainState = NotFollowed
  /\ vkCalls = << >>
  /\ beforeRebuild = NotFollowed
  /\ acquireResult = NotFollowed
  /\ frameAcquire = NoAcquire
  /\ submit_info = NoSubmit
  /\ present_info = NoPresent
  /\ slotCalls = NoSlotCalls
  /\ attachments = UndefinedAttachments
  /\ transition = NoTransition
  /\ drawIndexed = NothingDrawn

\* The batch after mossCreateSpriteBatch; window is the set of words of the
\* staging memory and of the device buffer whose contents are followed.
InitBatch(capacity, window) ==
  /\ spriteBatch = mossCreateSpriteBatch(capacity)
  /\ spritesAdded = 0
  /\ pIndicesWritten = NoIndicesWritten
  /\ stagingMemory = [w \in window |-> UninitWord]
  /\ deviceBuffer = [w \in window |-> UninitWord]

Init ==
  /\ InitEngine
  /\ \E capacity \in 1 .. MaxCapacity :
       InitBatch(capacity,
                 BufferWords(mossCreateSpriteBatch(capacity).bufferCapacity))

\* The same program with the contents of the buffers left out.
InitSizes ==
  /\ InitEngine
  /\ \E capacity \in 1 .. MaxCapacity : InitBatch(capacity, {})

Next ==
  \/ mossBeginFrame
  \/ mossBeginFrame_acquire
  \/ moss__recreateSwapchain
  \/ mossEndFrame
  \/ WindowResize
  \/ mossClearSpriteBatch
  \/ mossBeginSpriteBatch
  \/ \E pSprites \in SpriteArrays(MaxAddCount) :
       mossAddSpritesToSpriteBatch(pSprites)
  \/ mossEndSpriteBatch
  \/ mossEndSpriteBatch_return
  \/ \E pEngine \in {1, 2} : mossDrawSpriteBatch(pEngine)
  \/ GraphicsQueueExecute
  \/ TransferQueueExecute

Spec == InitSizes /\ [][Next]_vars

\* The frame loop alone: mossBeginFrame, mossEndFrame, the window and the GPU.
FrameNext ==
  \/ mossBeginFrame
  \/ mossBeginFrame_acquire
  \/ moss__recreateSwapchain
  \/ mossEndFrame
  \/ WindowResize
  \/ GraphicsQueueExecute

FrameSpec == Init /\ [][FrameNext]_vars

\* The sprite batch alone: its operations and the queues its transfer uses.
BatchNext ==
  \/ mossClearSpriteBatch
  \/ mossBeginSpriteBatch
  \/ \E pSprites \in SpriteArrays(MaxAddCount) :
       mossAddSpritesToSpriteBatch(pSprites)
  \/ mossEndSpriteBatch
  \/ mossEndSpriteBatch_return
  \/ GraphicsQueueExecute
  \/ TransferQueueExecute

BatchSpec == Init /\ [][BatchNext]_vars

\* One batch drawn by the frame loop: the window keeps its size, every add
\* passes one sprite, and the contents of the buffers are left out.
DrawNext ==
  \/ mossBeginFrame
  \/ mossBeginFrame_acquire
  \/ moss__recreateSwapchain
  \/ mossEndFrame
  \/ mossBeginSpriteBatch
  \/ mossAddSpritesToSpriteBatch(<< SpriteA >>)
  \/ mossEndSpriteBatch
  \/ mossEndSpriteBatch_return
  \/ mossDrawSpriteBatch(1)
  \/ GraphicsQueueExecute
  \/ TransferQueueExecute

DrawSpec == InitSizes /\ [][DrawNext]_vars

\* Batches of small capacities and one of WideCapacity, filled sprite by
\* sprite, with the contents of the buffers left out, and the batch of
\* MaxCapacity sprites with its contents.
InitWide ==
  /\ InitEngine
  /\ \/ \E capacity \in (1 .. MaxCapacity) \cup {WideCapacity} :
          InitBatch(capacity, {})
     \/ InitBatch(MaxCapacity,
                  BufferWords(mossCreateSpriteBatch(MaxCapacity).bufferCapacity))

IndexNext ==
  \/ mossClearSpriteBatch
  \/ mossBeginSpriteBatch
  \/ \E pSprites \in SpriteArrays(MaxAddCount) :
       mossAddSpritesToSpriteBatch(pSprites)

IndexSpec == InitWide /\ [][IndexNext]_vars

\* Every call on a batch, with a frame open or not; no frame is submitted.
SessionNext ==
  \/ mossBeginFrame
  \/ mossBeginFrame_acquire
  \/ moss__recreateSwapchain
  \/ mossClearSpriteBatch
  \/ mossBeginSpriteBatch
  \/ \E pSprites \in SpriteArrays(MaxAddCount) :
       mossAddSpritesToSpriteBatch(pSprites)
  \/ mossEndSpriteBatch
  \/ mossEndSpriteBatch_return
  \/ \E pEngine \in {1, 2} : mossDrawSpriteBatch(pEngine)
  \/ GraphicsQueueExecute
  \/ TransferQueueExecute

\* The words of the first vertex of a batch.
FirstVertexWords == 0 .. (SizeofVertex \div WordBytes) - 1

\* Batches of every small capacity with the contents left out, and the
\* batch of one sprite with the contents of its first vertex.
InitSession ==
  /\ InitEngine
  /\ \/ \E capacity \in 1 .. MaxCapacity : InitBatch(capacity, {})
     \/ InitBatch(1, FirstVertexWords)

SessionSpec == InitSession /\ [][SessionNext]_vars

\* A batch of one sprite filled, transferred, drawn by the frame loop and
\* destroyed, on a device whose transfers share the graphics queue; the
\* contents of the buffers are left out, and a frame call that enters the
\* swapchain rebuild is not followed further.
DestroyNext ==
  \/ mossBeginFrame
  \/ mossBeginFrame_acquire
  \/ mossEndFrame
  \/ mossBeginSpriteBatch
  \/ mossAddSpritesToSpriteBatch(<< SpriteA >>)
  \/ mossEndSpriteBatch
  \/ mossEndSpriteBatch_return
  \/ mossDrawSpriteBatch(1)
  \/ \E pSpriteBatch \in {"NULL", "batch"} : mossDestroySpriteBatch(pSpriteBatch)
  \/ mossDestroySpriteBatch_free
  \/ GraphicsQueueExecute

InitDestroy ==
  /\ InitEngine
  /\ ~dedicatedTransfer
  /\ InitBatch(1, {})

DestroySpec == InitDestroy /\ [][DestroyNext]_vars

\* The frame loop of an application that moves its camera.
CameraNext ==
  \/ mossBeginFrame
  \/ mossBeginFrame_acquire
  \/ moss__recreateSwapchain
  \/ mossEndFrame
  \/ WindowResize
  \/ mossSetCameraPosition
  \/ GraphicsQueueExecute

InitCamera ==
  /\ InitEngine
  /\ InitBatch(1, {})

CameraSpec == InitCamera /\ [][CameraNext]_vars

\* The frame loop with the results of its acquires and the handles of its
\* swapchain followed, on a surface that stays as it is.
InitLoop ==
  /\ InitFrames
  /\ ~dedicatedTransfer
  /\ InitBatch(1, {})
  /\ surface = PlainSurface
  /\ swapchainState = CreateEngineRun(windowFramebufferSize, NoFailure).st
  /\ vkCalls = CreateEngineRun(windowFramebufferSize, NoFailure).calls
  /\ beforeRebuild = InitialSwapchainState
  /\ acquireResult = "none"
  /\ frameAcquire = NoAcquire
  /\ submit_info = NoSubmit
  /\ present_info = NoPresent
  /\ slotCalls = NoSlotCalls
  /\ attachments = UndefinedAttachments
  /\ transition = NoTransition
  /\ drawIndexed = NothingDrawn

LoopSpec == InitLoop /\ [][FrameNext]_vars

\* The surfaces whose swapchain decides the size of the images, up to the
\* largest window.
ResizableSurfaces ==
  {s \in Surfaces : /\ s.currentExtent = UndefinedExtent
                    /\ s.maxImageExtent = NumWindowSizes}

\* The engine created, taken through swapchain rebuilds and destroyed, on a
\* surface and in a window that change; no frame is submitted.
RebuildNext ==
  \/ mossCreateEngine
  \/ mossBeginFrame
  \/ mossBeginFrame_acquire
  \/ moss__recreateSwapchain
  \/ WindowResize
  \/ SurfaceChange(ResizableSurfaces)
  \/ mossDestroyEngine
  \/ mossDestroyEngine_cleanup

InitRebuild ==
  /\ pc = "no engine"
  /\ frameReturn = Returned("none", MOSS_RESULT_SUCCESS, "")
  /\ batchReturn = Returned("none", MOSS_RESULT_SUCCESS, "")
  /\ currentFrame = 0
  /\ currentImageIndex = 0
  /\ inFlightFences = moss__createInFlightFences
  /\ imageAvailableSemaphores = [s \in FrameSlots |-> 0]
  /\ generalCommandBuffers = [s \in FrameSlots |-> InitialCommandBuffer]
  /\ windowFramebufferSize = 1
  /\ swapchain = [handle |-> FALSE, extent |-> 0]
  /\ graphicsQueue = << >>
  /\ transferQueue = << >>
  /\ dedicatedTransfer = FALSE
  /\ camera = 0
  /\ cameraUboBufferMappedMemoryBlocks = [s \in FrameSlots |-> camera]
  /\ InitBatch(1, {})
  /\ surface \in ResizableSurfaces
  /\ swapchainState = InitialSwapchainState
  /\ vkCalls = << >>
  /\ beforeRebuild = InitialSwapchainState
  /\ acquireResult = "none"
  /\ frameAcquire = NoAcquire
  /\ submit_info = NoSubmit
  /\ present_info = NoPresent
  /\ slotCalls = NoSlotCalls
  /\ attachments = UndefinedAttachments
  /\ transition = NoTransition
  /\ drawIndexed = NothingDrawn

RebuildSpec == InitRebuild /\ [][RebuildNext]_vars

\* The surfaces that differ in the extents they allow or impose only.
ExtentSurfaces ==
  {s \in Surfaces : /\ s.imageCount = PlainSurface.imageCount
                    /\ s.formats = PlainSurface.formats}

\* The engine created, rebuilt and destroyed on a surface that imposes its
\* extent or bounds it, in a window that changes its size.
ExtentNext ==
  \/ mossCreateEngine
  \/ mossBeginFrame
  \/ mossBeginFrame_acquire
  \/ moss__recreateSwapchain
  \/ WindowResize
  \/ SurfaceChange(ExtentSurfaces)
  \/ mossDestroyEngine
  \/ mossDestroyEngine_cleanup

ExtentSpec == InitRebuild /\ [][ExtentNext]_vars

\* One pixel that every sprite of a batch covers, through the render pass
\* of a frame that draws the batch once: the sprites are SpriteA at each
\* depth, in every order.
DepthNext ==
  \/ vkCmdBeginRenderPass
  \/ vkCmdDrawIndexed

InitDepth ==
  /\ InitFrames
  /\ dedicatedTransfer = FALSE
  /\ InitBatch(1, {})
  /\ surface = NotFollowed
  /\ swapchainState = NotFollowed
  /\ vkCalls = << >>
  /\ beforeRebuild = NotFollowed
  /\ acquireResult = NotFollowed
  /\ frameAcquire = NoAcquire
  /\ submit_info = NoSubmit
  /\ present_info = NoPresent
  /\ slotCalls = NoSlotCalls
  /\ attachments = UndefinedAttachments
  /\ transition = NoTransition
  /\ \E count \in 1 .. MaxSpritesDrawn :
       \E depths \in [1 .. count -> SpriteDepths] :
         drawIndexed =
           [sprites |-> [k \in 1 .. count |-> [SpriteA EXCEPT !.depth = depths[k]]],
            next |-> 0]

DepthSpec == InitDepth /\ [][DepthNext]_vars

\* The layout transitions of images, each asked for with any pair of
\* layouts: the texture image (undefined to transfer destination, then to
\* shader read only), the depth image, and the pairs no caller of the
\* engine asks for.
TransitionNext ==
  \E old_layout, new_layout \in VkImageLayouts :
    moss_vk__transition_image_layout(old_layout, new_layout)

InitTransition ==
  /\ InitFrames
  /\ dedicatedTransfer = FALSE
  /\ InitBatch(1, {})
  /\ surface = NotFollowed
  /\ swapchainState = NotFollowed
  /\ vkCalls = << >>
  /\ beforeRebuild = NotFollowed
  /\ acquireResult = NotFollowed
  /\ frameAcquire = NoAcquire
  /\ submit_info = NoSubmit
  /\ present_info = NoPresent
  /\ slotCalls = NoSlotCalls
  /\ attachments = UndefinedAttachments
  /\ drawIndexed = NothingDrawn
  /\ transition = NoTransition

TransitionSpec == InitTransition /\ [][TransitionNext]_vars

\* The frame loop and the operations of a batch of one sprite that are
\* given the engine or fill what is drawn, with the contents of the buffers
\* left out, in a window that keeps its size.
SlotNext ==
  \/ mossBeginFrame
  \/ mossBeginFrame_acquire
  \/ moss__recreateSwapchain
  \/ mossEndFrame
  \/ mossBeginSpriteBatch
  \/ mossAddSpritesToSpriteBatch(<< SpriteA >>)
  \/ mossEndSpriteBatch
  \/ mossEndSpriteBatch_return
  \/ mossDrawSpriteBatch(1)
  \/ GraphicsQueueExecute

SlotSpec == InitDestroy /\ [][SlotNext]_vars

\* The frame loop with a GPU that completes every batch it can start, a
\* thread that leaves vkWaitForFences once the fence is signaled and
\* vkDeviceWaitIdle once the device is idle.
FairFrameSpec ==
  /\ Init
  /\ [][FrameNext]_vars
  /\ WF_vars(GraphicsQueueExecute)
  /\ WF_vars(mossBeginFrame_acquire)
  /\ WF_vars(moss__recreateSwapchain)

(***************************************************************************)
(* Frame pacing                                                            *)
(***************************************************************************)
\* Positions in the graphics queue of the submitted, incomplete frames of a
\* slot.
IncompleteFrames(slot) ==
  {i \in DOMAIN graphicsQueue :
     graphicsQueue[i].kind = "frame" /\ graphicsQueue[i].slot = slot}

\* A step of mossBeginFrame that went through vkResetCommandBuffer.
ResetsCommandBuffer ==
  /\ pc = "vkWaitForFences"
  /\ pc' = "app"
  /\ frameReturn'.log \in {"", "Failed to begin recording command buffer."}

\* C1: with MAX_FRAMES_IN_FLIGHT slots, a slot never has more than one
\* submitted frame whose fence is not yet signaled, mossBeginFrame leaves
\* its wait on a slot only when the slot's earlier frame is complete, and
\* so at most MAX_FRAMES_IN_FLIGHT submitted frames are incomplete.
C1_FramesInFlightBounded ==
  /\ \A slot \in FrameSlots : Cardinality(IncompleteFrames(slot)) <= 1
  /\ Cardinality(UNION {IncompleteFrames(slot) : slot \in FrameSlots})
       <= MAX_FRAMES_IN_FLIGHT
  /\ (pc = "app" /\ FrameBelievedOpen) => IncompleteFrames(currentFrame) = {}

\* C1 witness: every slot has a submitted frame in flight and the thread
\* waits in mossBeginFrame for the oldest of them.
C1_AllSlotsInFlight ==
  /\ \A slot \in FrameSlots : Cardinality(IncompleteFrames(slot)) = 1
  /\ pc = "vkWaitForFences"
  /\ ~inFlightFences[currentFrame]

\* C2: a step of mossBeginFrame that resets and re-records the slot's
\* command buffer is taken only when no earlier submission of that buffer is
\* still incomplete.
C2_ResetOnlyWhenComplete ==
  [][ResetsCommandBuffer => IncompleteFrames(currentFrame) = {}]_vars

\* C2 witness: slot 0 is recording again after its earlier frame was
\* submitted and completed, while the frame of slot 1 is still in flight.
C2_SlotRecordedAgain ==
  /\ pc = "app"
  /\ currentFrame = 0
  /\ generalCommandBuffers[0].state = "recording"
  /\ generalCommandBuffers[1].state = "pending"
  /\ IncompleteFrames(1) # {}
  /\ IncompleteFrames(0) = {}

\* C3: after the acquire reported out-of-date and the rebuild succeeded,
\* the caller's retry of mossBeginFrame on the same slot returns.  Violated:
\* the slot's fence was reset before the acquire and nothing signals it.
C3_RetryAfterOutOfDateReturns ==
  (pc = "vkWaitForFences" /\ frameReturn.log = "out of date")
    ~> (pc # "vkWaitForFences")

\* C4: whenever mossBeginFrame has returned success, the slot's command
\* buffer is recording, with the render pass begun on the framebuffer of the
\* image that call acquired.  Violated by the out-of-date return.
C4_SuccessMeansRecording ==
  (pc = "app" /\ FrameBelievedOpen) =>
    /\ generalCommandBuffers[currentFrame].state = "recording"
    /\ generalCommandBuffers[currentFrame].renderPass
    /\ generalCommandBuffers[currentFrame].framebuffer = currentImageIndex

\* C5: after mossBeginFrame or mossEndFrame returned an error the caller can
\* call mossBeginFrame again and the call returns.  Violated after an
\* acquire, begin, end or submit failure: the fence stays unsignaled.
C5_BeginAfterErrorReturns ==
  (pc = "vkWaitForFences" /\ frameReturn.result = MOSS_RESULT_ERROR)
    ~> (pc # "vkWaitForFences")

(***************************************************************************)
(* Sprite batch                                                            *)
(***************************************************************************)
\* Positions in the graphics queue of the submitted, incomplete frames that
\* draw the batch.
DrawingFrames ==
  {i \in DOMAIN graphicsQueue :
     graphicsQueue[i].kind = "frame" /\ graphicsQueue[i].draws > 0}

\* A step in which the dedicated transfer queue executes a copy of
\* mossEndSpriteBatch that writes sprite data.
CopyExecutes ==
  /\ transferQueue # << >>
  /\ Head(transferQueue).vertexBytes > 0
  /\ transferQueue' = Tail(transferQueue)

\* C6: the copy of mossEndSpriteBatch never writes the device-local buffer
\* while a submitted frame holding a draw of the batch is still executing.
\* Violated on a device with a dedicated transfer queue: the end waits for
\* no frame fence.
C6_CopyNeverOverlapsDraw ==
  [][CopyExecutes => DrawingFrames = {}]_vars

\* mossEndSpriteBatch has returned success and nothing was called since.
EndReturnedSuccess ==
  /\ pc = "app"
  /\ batchReturn = Returned("mossEndSpriteBatch", MOSS_RESULT_SUCCESS, "")

\* The words of a region of `size` bytes at `offset` that the model follows.
RegionWords(offset, size) ==
  {w \in DOMAIN deviceBuffer :
     /\ w >= offset \div WordBytes
     /\ w < (offset + size) \div WordBytes}

\* The index words the k-th sprite of a session occupies.
IndexWordsOf(k) ==
  LET first == (spriteBatch.indexDataOffset
                  + k * SizeofIndex * MOSS__INDICES_PER_SPRITE) \div WordBytes
  IN  << deviceBuffer[first], deviceBuffer[first + 1], deviceBuffer[first + 2] >>

\* C7: when mossEndSpriteBatch returns success the transfer has completed,
\* and the device buffer holds in the vertex region [0, vertexDataSize) and
\* in the index region the words mossAddSpritesToSpriteBatch stored: every
\* word equals the staging word, the vertex words are vertex data and the
\* index words of sprite k are those of base vertex 4k.
C7_EndLeavesDeviceBufferCurrent ==
  EndReturnedSuccess =>
    /\ PendingTransfers = 0
    /\ \A w \in RegionWords(spriteBatch.vertexDataOffset,
                            spriteBatch.vertexDataSize)
             \cup RegionWords(spriteBatch.indexDataOffset,
                              spriteBatch.indexDataSize) :
         deviceBuffer[w] = stagingMemory[w]
    /\ spritesAdded <= Capacity(spriteBatch) =>
         /\ \A w \in RegionWords(spriteBatch.vertexDataOffset,
                                 spriteBatch.vertexDataSize) :
              deviceBuffer[w][1] = "float"
         /\ \A k \in 0 .. (spritesAdded - 1) :
              IndexWordsOf(k) = IndexWords(SpriteIndices(4 * k))

\* C7 witness: an end has returned success on a device with a dedicated
\* transfer queue after a session that filled the batch with SpriteB.
C7_FilledBatchTransferred ==
  /\ EndReturnedSuccess
  /\ dedicatedTransfer
  /\ spritesAdded = Capacity(spriteBatch)
  /\ deviceBuffer[0] = FloatWord(SpriteB.position[1] - SpriteB.size[1] \div 2)

\* C8: after adds totalling N sprites since the last begin, for every N up
\* to the capacity, indexCount = 6N, indexDataSize = 12N and
\* vertexDataSize = 4N * sizeof (Moss__Vertex).
C8_CountersFollowSprites ==
  spritesAdded <= Capacity(spriteBatch) =>
    /\ spriteBatch.indexCount = 6 * spritesAdded
    /\ spriteBatch.indexDataSize = 12 * spritesAdded
    /\ spriteBatch.vertexDataSize = 4 * spritesAdded * SizeofVertex

\* C8 witness: a begun batch of WideCapacity sprites that adds have filled
\* to its capacity.
C8_FilledToCapacity ==
  /\ spriteBatch.isBegun
  /\ Capacity(spriteBatch) = WideCapacity
  /\ spritesAdded = Capacity(spriteBatch)
  /\ spriteBatch.indexCount = 6 * Capacity(spriteBatch)

\* C9: in every reachable state of the batch vertexDataSize <=
\* vertexCapacity and indexDataSize <= indexCapacity.  Violated: add checks
\* no capacity.
C9_SizesWithinCapacity ==
  /\ spriteBatch.vertexDataSize <= spriteBatch.vertexCapacity
  /\ spriteBatch.indexDataSize <= spriteBatch.indexCapacity

\* C10: the six 16-bit indices stored for the k-th sprite of a session are
\* 4k+0, 4k+1, 4k+2, 4k+2, 4k+3, 4k+0 for every k below the capacity.
\* Violated from k = 16384 on: base_vertex is a uint16_t.
C10_IndicesOfSprite ==
  (pIndicesWritten.k >= 0 /\ pIndicesWritten.k < Capacity(spriteBatch)) =>
    pIndicesWritten.indices =
      << 4 * pIndicesWritten.k + 0, 4 * pIndicesWritten.k + 1,
         4 * pIndicesWritten.k + 2, 4 * pIndicesWritten.k + 2,
         4 * pIndicesWritten.k + 3, 4 * pIndicesWritten.k + 0 >>

(***************************************************************************)
(* Sprite batch: the protocol of begin, add, end, draw and clear           *)
(***************************************************************************)
\* A step of mossAddSpritesToSpriteBatch, whatever it is passed.
AddCall ==
  \E pSprites \in SpriteArrays(MaxAddCount) :
    mossAddSpritesToSpriteBatch(pSprites)

\* A step of mossDrawSpriteBatch on the engine the batch belongs to or on
\* another one.
DrawCall(pEngine) == mossDrawSpriteBatch(pEngine)

\* The batch holds data in memory the model follows.
HoldsSpriteData ==
  /\ DOMAIN stagingMemory # {}
  /\ stagingMemory[0] # UninitWord
  /\ spriteBatch.indexCount > 0

\* C11: add on a batch that is not begun returns error and leaves
\* vertexDataSize, indexDataSize, indexCount, the begun flag and the staging
\* contents as they were before the call.
C11_AddNotBegunRefused ==
  [][(~spriteBatch.isBegun /\ AddCall) =>
       /\ pc' = "app"
       /\ batchReturn'.fn = "mossAddSpritesToSpriteBatch"
       /\ batchReturn'.result = MOSS_RESULT_ERROR
       /\ spriteBatch' = spriteBatch
       /\ stagingMemory' = stagingMemory]_vars

\* C11 witness: add was refused on an ended batch that holds a sprite.
C11_AddRefusedOnEndedBatch ==
  /\ batchReturn = Returned("mossAddSpritesToSpriteBatch", MOSS_RESULT_ERROR,
                            "Sprite batch not begun.")
  /\ ~spriteBatch.isBegun
  /\ HoldsSpriteData

\* A draw step that recorded nothing and changed nothing in the batch.
DrawLeftNoTrace ==
  /\ pc' = "app"
  /\ batchReturn'.fn = "mossDrawSpriteBatch"
  /\ generalCommandBuffers' = generalCommandBuffers
  /\ spriteBatch' = spriteBatch

BeginSucceeds ==
  /\ mossBeginSpriteBatch
  /\ batchReturn'.result = MOSS_RESULT_SUCCESS

\* An earlier session left sprite data in the staging memory.
EarlierSessionStored ==
  /\ DOMAIN stagingMemory # {}
  /\ stagingMemory[0] # UninitWord

\* C14: begin on an already-begun batch returns error and leaves the begun
\* flag and the counts accumulated in the open session unchanged.
C14_BeginOnBegunRefused ==
  [][(spriteBatch.isBegun /\ mossBeginSpriteBatch) =>
       /\ batchReturn'.result = MOSS_RESULT_ERROR
       /\ spriteBatch' = spriteBatch
       /\ spritesAdded' = spritesAdded]_vars

\* C14 witness: begin was refused on an open session that holds a sprite.
C14_BeginRefusedInOpenSession ==
  /\ batchReturn = Returned("mossBeginSpriteBatch", MOSS_RESULT_ERROR,
                            "Sprite batch already begun.")
  /\ spriteBatch.isBegun
  /\ spriteBatch.indexCount > 0

C16_BeginKeepsSprites ==
  [][BeginSucceeds =>
       /\ spriteBatch'.indexCount = spriteBatch.indexCount
       /\ spriteBatch'.vertexDataSize = spriteBatch.vertexDataSize
       /\ spriteBatch'.indexDataSize = spriteBatch.indexDataSize]_vars

\* A step of mossEndSpriteBatch that returned through its first check.
EndRefused ==
  /\ mossEndSpriteBatch
  /\ pc' = "app"
  /\ batchReturn' = Returned("mossEndSpriteBatch", MOSS_RESULT_ERROR,
                             "Sprite batch not begun.")

\* A step in which mossEndSpriteBatch returns success.
EndSucceeds ==
  /\ mossEndSpriteBatch_return
  /\ batchReturn'.result = MOSS_RESULT_SUCCESS

\* C17: end on a batch that is not begun returns error and changes nothing;
\* a successful end marks the batch not begun and keeps the counts, so that
\* the call that follows it is accepted when it is a draw (recorded into the
\* open frame), refused when it is an add, and succeeds when it is a begin.
C17_EndClosesSession ==
  [][/\ (~spriteBatch.isBegun /\ mossEndSpriteBatch) =>
          /\ EndRefused
          /\ spriteBatch' = spriteBatch
          /\ deviceBuffer' = deviceBuffer
          /\ graphicsQueue' = graphicsQueue
          /\ transferQueue' = transferQueue
     /\ EndSucceeds =>
          /\ ~spriteBatch'.isBegun
          /\ spriteBatch'.indexCount = spriteBatch.indexCount
          /\ spriteBatch'.vertexDataSize = spriteBatch.vertexDataSize
          /\ spriteBatch'.indexDataSize = spriteBatch.indexDataSize
     /\ (EndReturnedSuccess /\ DrawCall(1)
           /\ generalCommandBuffers[currentFrame].state = "recording") =>
          /\ batchReturn' = Returned("mossDrawSpriteBatch",
                                     MOSS_RESULT_SUCCESS, "")
          /\ spriteBatch.indexCount > 0 =>
               generalCommandBuffers'[currentFrame].draws
                 = generalCommandBuffers[currentFrame].draws + 1
     /\ (EndReturnedSuccess /\ AddCall) =>
          /\ batchReturn'.result = MOSS_RESULT_ERROR
          /\ spriteBatch' = spriteBatch
     /\ (EndReturnedSuccess /\ mossBeginSpriteBatch) =>
          /\ batchReturn'.result = MOSS_RESULT_SUCCESS
          /\ spriteBatch'.isBegun]_vars

\* C17 witness: after a successful end of a session with a sprite, the
\* draw was accepted and recorded into the frame.
C17_DrawAcceptedAfterEnd ==
  /\ batchReturn = Returned("mossDrawSpriteBatch", MOSS_RESULT_SUCCESS, "")
  /\ ~spriteBatch.isBegun
  /\ spriteBatch.indexCount = 6 * spritesAdded
  /\ spritesAdded > 0
  /\ generalCommandBuffers[currentFrame].draws = 1

(***************************************************************************)
(* Sprite batch: what add stores                                           *)
(***************************************************************************)
\* The loop of add run from the present state of the batch over pSprites.
AddFromHere(pSprites) ==
  AddLoop(AddLoopStart(spriteBatch, stagingMemory, pIndicesWritten.indices),
          pSprites, 1)

\* The loop of add run over pSprites from the state a loop left.
AddAfter(st, pSprites) ==
  AddLoop(AddLoopStart(st.batch, st.mem, st.indices), pSprites, 1)

\* C18: within one begin session, one add call with sprites [A, B] leaves
\* the same vertex bytes, index bytes and counts as add([A]) followed by
\* add([B]), for all sprites A and B and for every number of sprites
\* already in the session.
C18_AddOfTwoIsTwoAdds ==
  spriteBatch.isBegun =>
    \A A \in Sprites, B \in Sprites :
      LET together == AddFromHere(<< A, B >>)
          apart    == AddAfter(AddFromHere(<< A >>), << B >>)
      IN  /\ together.batch = apart.batch
          /\ together.mem = apart.mem
          /\ together.indices = apart.indices

\* C18 witness: an open session whose contents are followed holds SpriteA
\* then SpriteB, and the last add returned success.
C18_TwoSpritesStored ==
  /\ spriteBatch.isBegun
  /\ batchReturn = Returned("mossAddSpritesToSpriteBatch", MOSS_RESULT_SUCCESS, "")
  /\ spritesAdded = 2
  /\ Capacity(spriteBatch) >= 2
  /\ DOMAIN stagingMemory # {}
  /\ stagingMemory[0] = FloatWord(-2)
  /\ stagingMemory[20] = FloatWord(9)

\* The rectangle of sprite S: left = x - w/2, right = x + w/2,
\* top = y + h/2, bottom = y - h/2.
RectLeft(S) == S.position[1] - S.size[1] \div 2

RectRight(S) == S.position[1] + S.size[1] \div 2

RectTop(S) == S.position[2] + S.size[2] \div 2

RectBottom(S) == S.position[2] - S.size[2] \div 2

\* The twenty words of the corners of the rectangle of S in the order
\* top-left, top-right, bottom-right, bottom-left, each x, y, z = depth,
\* u, v.
RectangleWords(S) ==
  << FloatWord(RectLeft(S)), FloatWord(RectTop(S)), FloatWord(S.depth),
     FloatWord(S.uvTopLeft[1]), FloatWord(S.uvTopLeft[2]),
     FloatWord(RectRight(S)), FloatWord(RectTop(S)), FloatWord(S.depth),
     FloatWord(S.uvBottomRight[1]), FloatWord(S.uvTopLeft[2]),
     FloatWord(RectRight(S)), FloatWord(RectBottom(S)), FloatWord(S.depth),
     FloatWord(S.uvBottomRight[1]), FloatWord(S.uvBottomRight[2]),
     FloatWord(RectLeft(S)), FloatWord(RectBottom(S)), FloatWord(S.depth),
     FloatWord(S.uvTopLeft[1]), FloatWord(S.uvBottomRight[2]) >>

\* The twenty staging words of the vertices of the k-th sprite of a session.
StagedVertexWords(k) ==
  LET first == (spriteBatch.vertexDataOffset
                  + k * SizeofVertex * MOSS__VERTICIES_PER_SPRITE) \div WordBytes
  IN  [i \in 1 .. 20 |-> stagingMemory[first + i - 1]]

\* C19: for every sprite S, add writes exactly four vertices in the order
\* top-left, top-right, bottom-right, bottom-left of the rectangle centred
\* at S.position with the size S.size, each with z = S.depth and with the
\* texture coordinates (uvTL.x, uvTL.y), (uvBR.x, uvTL.y), (uvBR.x, uvBR.y),
\* (uvTL.x, uvBR.y): the generated vertices are those, and every sprite slot
\* an open session has filled holds the words of one of the sprites passed.
C19_VerticesAreTheRectangle ==
  /\ \A S \in Sprites :
       /\ Len(mossGenerateVerticiesFromSprite(S)) = MOSS__VERTICIES_PER_SPRITE
       /\ SpriteVertexWords(S) = RectangleWords(S)
  /\ (spriteBatch.isBegun /\ DOMAIN stagingMemory # {}) =>
       \A k \in 0 .. (spritesAdded - 1) :
         k < Capacity(spriteBatch) =>
           \E S \in Sprites : StagedVertexWords(k) = RectangleWords(S)

\* C19 witness: an open session has stored SpriteB in its second slot, the
\* top-left corner first and the bottom-left corner last.
C19_SpriteBStored ==
  /\ spriteBatch.isBegun
  /\ spritesAdded = 2
  /\ DOMAIN stagingMemory # {}
  /\ StagedVertexWords(1) = RectangleWords(SpriteB)
  /\ StagedVertexWords(1)[1] = FloatWord(9)
  /\ StagedVertexWords(1)[2] = FloatWord(-3)
  /\ StagedVertexWords(1)[17] = FloatWord(-9)

(***************************************************************************)
(* Sprite batch: clear                                                     *)
(***************************************************************************)
\* mossClearSpriteBatch has returned and nothing was called since.
ClearReturned ==
  /\ pc = "app"
  /\ batchReturn.fn = "mossClearSpriteBatch"

\* C20: clear sets vertexDataSize, indexDataSize and indexCount to zero and
\* leaves the batch not begun, without touching the device-local buffer,
\* the staging buffer, its mapping or the capacities; a draw directly after
\* clear is a successful no-op, a begin directly after clear succeeds, and
\* no step of any call changes the buffers' sizes or the capacities.
C20_ClearResetsWithoutReallocating ==
  [][/\ mossClearSpriteBatch =>
          /\ spriteBatch' = [spriteBatch EXCEPT !.vertexDataSize = 0,
                                                !.indexDataSize = 0,
                                                !.indexCount = 0,
                                                !.isBegun = FALSE]
          /\ deviceBuffer' = deviceBuffer
          /\ stagingMemory' = stagingMemory
     /\ \A pEngine \in {1, 2} :
          (ClearReturned /\ DrawCall(pEngine)) =>
            /\ DrawLeftNoTrace
            /\ batchReturn'.result = MOSS_RESULT_SUCCESS
     /\ (ClearReturned /\ mossBeginSpriteBatch) => BeginSucceeds
     /\ spriteBatch'.bufferCapacity = spriteBatch.bufferCapacity
     /\ spriteBatch'.vertexCapacity = spriteBatch.vertexCapacity
     /\ spriteBatch'.indexCapacity = spriteBatch.indexCapacity
     /\ spriteBatch'.vertexDataOffset = spriteBatch.vertexDataOffset
     /\ spriteBatch'.indexDataOffset = spriteBatch.indexDataOffset
     /\ DOMAIN stagingMemory' = DOMAIN stagingMemory
     /\ DOMAIN deviceBuffer' = DOMAIN deviceBuffer]_vars

\* C20 witness: a batch whose sprite had been transferred was cleared: the
\* counts are zero and both buffers still hold the data.
C20_ClearedAfterTransfer ==
  /\ ClearReturned
  /\ ~spriteBatch.isBegun
  /\ spriteBatch.indexCount = 0
  /\ EarlierSessionStored
  /\ deviceBuffer[0] = stagingMemory[0]

(***************************************************************************)
(* Destruction of the batch                                                *)
(***************************************************************************)
\* A step of mossDestroySpriteBatch on the batch that frees its buffers.
DestroyFrees ==
  /\ pc = "vkDeviceWaitIdle in destroy"
  /\ pc' = "app"

\* A step of mossDestroySpriteBatch (NULL).
DestroyOfNull == mossDestroySpriteBatch("NULL")

\* C21: mossDestroySpriteBatch frees nothing before the device is idle, so
\* no submitted frame or transfer is executing when the buffers go; it then
\* releases the staging memory and buffer and after them the device-local
\* memory and buffer, each handle once; mossDestroySpriteBatch (NULL)
\* changes nothing.
C21_DestroyWaitsThenFreesOnce ==
  [][/\ DestroyFrees =>
          /\ graphicsQueue = << >>
          /\ transferQueue = << >>
          /\ vkCalls' =
               << VkCall("vkUnmapMemory", "stagingMemory", LiveHandle),
                  VkCall("vkFreeMemory", "stagingMemory", LiveHandle),
                  VkCall("vkDestroyBuffer", "stagingBuffer", LiveHandle),
                  VkCall("vkFreeMemory", "bufferMemory", LiveHandle),
                  VkCall("vkDestroyBuffer", "buffer", LiveHandle),
                  VkCall("free", "pSpriteBatch", LiveHandle) >>
     /\ ~DestroyFrees => vkCalls' = vkCalls
     /\ DestroyOfNull =>
          /\ spriteBatch' = spriteBatch
          /\ vkCalls' = vkCalls
          /\ pc' = pc
          /\ stagingMemory' = stagingMemory
          /\ deviceBuffer' = deviceBuffer
          /\ graphicsQueue' = graphicsQueue
          /\ transferQueue' = transferQueue]_vars

\* C21 witness: the batch is destroyed after a frame that draws it was
\* submitted and has completed.
C21_DestroyedAfterDrawnFrame ==
  /\ batchReturn = Returned("mossDestroySpriteBatch", "void", "")
  /\ spriteBatch.buffer = DestroyedHandle
  /\ \E slot \in FrameSlots :
       /\ generalCommandBuffers[slot].draws > 0
       /\ generalCommandBuffers[slot].state = "executable"

(***************************************************************************)
(* Camera uniform buffer                                                   *)
(***************************************************************************)
\* C22: a step changes the camera copy of a slot only if the slot is
\* currentFrame, its in-flight fence is signaled and no submitted frame of
\* the slot is incomplete: the CPU never overwrites a copy that a frame on
\* the GPU still reads.
C22_CameraCopyWrittenOnlyWhenIdle ==
  [][\A slot \in FrameSlots :
       cameraUboBufferMappedMemoryBlocks'[slot]
           # cameraUboBufferMappedMemoryBlocks[slot]
         => /\ slot = currentFrame
            /\ inFlightFences[slot]
            /\ IncompleteFrames(slot) = {}]_vars

\* C22 witness: the copy of currentFrame holds the moved camera while the
\* frame of the other slot, which reads the other copy, is still
\* incomplete.
C22_CopyWrittenBesideFrameInFlight ==
  /\ pc = "app"
  /\ FrameBelievedOpen
  /\ camera # 0
  /\ cameraUboBufferMappedMemoryBlocks[currentFrame] = camera
  /\ cameraUboBufferMappedMemoryBlocks[NextFrame(currentFrame)] # camera
  /\ IncompleteFrames(NextFrame(currentFrame)) # {}

(***************************************************************************)
(* Swapchain rebuilds                                                      *)
(***************************************************************************)
\* The step is a mossEndFrame that submitted the frame and called
\* vkQueuePresentKHR.
EndFramePresents ==
  /\ pc = "app"
  /\ Len(graphicsQueue') = Len(graphicsQueue) + 1
  /\ mossEndFrame

\* C23: when vkAcquireNextImageKHR reports VK_SUBOPTIMAL_KHR the frame is
\* recorded and submitted as usual (mossBeginFrame does not rebuild, and
\* where it returns success the slot's command buffer is recording), and the
\* mossEndFrame of that frame enters the swapchain rebuild after present,
\* whatever vkQueuePresentKHR reports.
C23_SuboptimalAcquireRebuildsAfterPresent ==
  [][/\ (mossBeginFrame_acquire /\ acquireResult' = VK_SUBOPTIMAL_KHR)
          => /\ pc' = "app"
             /\ frameReturn'.result = MOSS_RESULT_SUCCESS
                  => generalCommandBuffers'[currentFrame].state = "recording"
     /\ (acquireResult = VK_SUBOPTIMAL_KHR /\ EndFramePresents)
          => pc' = "recreate in end"]_vars

\* Every field a successful build fills holds a live object: the swapchain,
\* the depth image with its memory and view, and a view and a framebuffer
\* for every image.
SwapchainBuilt(st) ==
  /\ st.swapchain = LiveHandle
  /\ st.depthImage = LiveHandle
  /\ st.depthImageMemory = LiveHandle
  /\ st.depthImageView = LiveHandle
  /\ st.swapchainImageCount \in 1 .. MAX_SWAPCHAIN_IMAGE_COUNT
  /\ \A i \in SwapchainImageSlots :
       i < st.swapchainImageCount
         => /\ st.presentFramebufferImageViews[i] = LiveHandle
            /\ st.presentFramebuffers[i] = LiveHandle

\* The slot whose frame the last mossEndFrame submitted.
PreviousFrame(cf) == (cf + MAX_FRAMES_IN_FLIGHT - 1) % MAX_FRAMES_IN_FLIGHT

EndFrameReturnsSuccess ==
  /\ pc' = "app"
  /\ frameReturn' = Returned("mossEndFrame", MOSS_RESULT_SUCCESS, "")
  /\ \/ mossEndFrame
     \/ pc = "recreate in end" /\ moss__recreateSwapchain

\* C25: currentFrame is always in 0 .. N - 1 with N = 2; a step that
\* returns success from mossEndFrame changes it to (currentFrame + 1) mod N,
\* and every other step (mossBeginFrame, a mossEndFrame that returns error,
\* a rebuild inside mossBeginFrame or one that fails, an operation of the
\* sprite batch, the GPU) leaves it as it is.
C25_CurrentFrameCyclesOnEndFrame ==
  /\ currentFrame \in FrameSlots
  /\ [][/\ currentFrame' \in 0 .. (MAX_FRAMES_IN_FLIGHT - 1)
        /\ IF EndFrameReturnsSuccess
           THEN currentFrame' = (currentFrame + 1) % MAX_FRAMES_IN_FLIGHT
           ELSE currentFrame' = currentFrame]_vars

\* C25 witness: currentFrame has wrapped from N - 1 to 0 (the slot before
\* it has a frame submitted) with a drawn batch in the frame.
C25_WrappedWithDrawnBatch ==
  /\ currentFrame = 0
  /\ frameReturn = Returned("mossEndFrame", MOSS_RESULT_SUCCESS, "")
  /\ generalCommandBuffers[MAX_FRAMES_IN_FLIGHT - 1].state = "pending"
  /\ generalCommandBuffers[MAX_FRAMES_IN_FLIGHT - 1].draws > 0

(***************************************************************************)
(* The order of a rebuild                                                  *)
(***************************************************************************)
\* What a call of the log works on: the framebuffers, the image views, the
\* swapchain, or the depth image with its memory and its view.
Resource(call) ==
  IF call.object \in {"depthImage", "depthImageMemory", "depthImageView"}
  THEN "depth resources"
  ELSE call.object

IsCreation(call) ==
  call.fn \in {"vkCreateSwapchainKHR", "vkCreateImageView", "vkCreateImage",
               "vkAllocateMemory", "vkCreateFramebuffer"}

\* The calls of the log that come before its first creation.
TeardownCalls(calls) ==
  {i \in DOMAIN calls : \A k \in 1 .. i : ~IsCreation(calls[k])}

\* The place of a resource in an order of resources.
Place(order, resource) == CHOOSE n \in DOMAIN order : order[n] = resource

\* moss__recreateSwapchain: swapchain, image views, depth resources,
\* framebuffers.
BuildOrder ==
  << "swapchain", "presentFramebufferImageViews", "depth resources",
     "presentFramebuffers" >>

\* The log tears down in teardownOrder, creates nothing before the teardown
\* is over, and then builds in BuildOrder; what a failing step destroys of
\* its own work belongs to that step.
RebuildOrdered(calls, teardownOrder) ==
  \A i, j \in DOMAIN calls :
    i < j =>
      IF j \in TeardownCalls(calls)
      THEN Place(teardownOrder, Resource(calls[i]))
             <= Place(teardownOrder, Resource(calls[j]))
      ELSE i \notin TeardownCalls(calls)
             => Place(BuildOrder, Resource(calls[i]))
                  <= Place(BuildOrder, Resource(calls[j]))

\* The resources the calls at the positions in `at` work on.
ResourcesOf(calls, at) == {Resource(calls[i]) : i \in at}

\* The step is the body of moss__recreateSwapchain.
RebuildStep ==
  /\ pc \in {"recreate in begin", "recreate in end"}
  /\ pc' = "app"

C27_NoHandleDestroyedTwice ==
  \A i \in DOMAIN vkCalls : vkCalls[i].handle # DestroyedHandle

(***************************************************************************)
(* Rebuilds and the GPU                                                    *)
(***************************************************************************)
\* The calls of a log that destroy or free.
Destructions(calls) == {i \in DOMAIN calls : ~IsCreation(calls[i])}

\* C28: a rebuild destroys no framebuffer, image view, depth resource or
\* swapchain while a submitted frame is still executing: only a rebuild
\* changes the handles, and the rebuild entered from mossBeginFrame and the
\* one entered from mossEndFrame both make their destructions, the first
\* call of the rebuild among them, only once no queue of the device has
\* work left and no command buffer is pending.
C28_RebuildDestroysOnlyWhenIdle ==
  [][/\ (swapchainState' # swapchainState \/ vkCalls' # vkCalls)
          => RebuildStep
     /\ RebuildStep
          => /\ 1 \in Destructions(vkCalls')
             /\ graphicsQueue = << >>
             /\ transferQueue = << >>
             /\ \A slot \in FrameSlots :
                  generalCommandBuffers[slot].state # "pending"]_vars

\* C28 witness: the rebuild entered from mossBeginFrame of the second frame
\* has torn down the swapchain the first frame, by now complete, was
\* submitted on.
C28_RebuiltAfterSubmittedFrame ==
  /\ pc = "app"
  /\ frameReturn.fn = "mossBeginFrame"
  /\ frameReturn.log = "out of date"
  /\ currentFrame = 1
  /\ generalCommandBuffers[0].state = "invalid"
  /\ vkCalls # << >>
  /\ vkCalls[1].fn = "vkDestroyFramebuffer"
  /\ graphicsQueue = << >>

(***************************************************************************)
(* The image count                                                         *)
(***************************************************************************)
\* C29: in every reachable state of the engine, the state a failed swapchain
\* creation leaves included, the recorded swapchainImageCount is at most
\* MAX_SWAPCHAIN_IMAGE_COUNT, so that no loop over the image views or the
\* framebuffers has read a handle beyond the end of its array.
C29_ImageCountWithinArrays ==
  /\ swapchainState.swapchainImageCount <= MAX_SWAPCHAIN_IMAGE_COUNT
  /\ \A i \in DOMAIN vkCalls : vkCalls[i].handle # BeyondTheArray

(***************************************************************************)
(* Rebuilding twice                                                        *)
(***************************************************************************)
\* What an application can observe of the swapchain: the image count, the
\* format, the recorded extent, and which images have a view and a
\* framebuffer.
Observable(st) ==
  [swapchainImageCount  |-> st.swapchainImageCount,
   swapchainImageFormat |-> st.swapchainImageFormat,
   swapchainExtent      |-> st.swapchainExtent,
   withView        |-> {i \in SwapchainImageSlots :
                          st.presentFramebufferImageViews[i] # VK_NULL_HANDLE},
   withFramebuffer |-> {i \in SwapchainImageSlots :
                          st.presentFramebuffers[i] # VK_NULL_HANDLE}]

\* The step is a moss__recreateSwapchain that returned success.
RebuildSucceeds ==
  /\ RebuildStep
  /\ swapchain'.handle

EndFrameSubmits == mossEndFrame /\ graphicsQueue' # graphicsQueue

\* C31: in each frame the submit of mossEndFrame waits on the image-available
\* semaphore the vkAcquireNextImageKHR of the same frame was given, signals
\* the render-finished semaphore and the in-flight fence of the slot, and
\* the present waits on that render-finished semaphore and presents the
\* image index the acquire of the same frame returned.
C31_SubmitAndPresentFollowAcquire ==
  [][EndFrameSubmits =>
       /\ frameAcquire.result \in AcquiredResults
       /\ submit_info'.pWaitSemaphores = frameAcquire.semaphore
       /\ submit_info'.pSignalSemaphores = currentFrame
       /\ submit_info'.fence = currentFrame
       /\ present_info'.pWaitSemaphores = submit_info'.pSignalSemaphores
       /\ present_info'.pImageIndices = frameAcquire.imageIndex]_vars

(***************************************************************************)
(* mossDrawSpriteBatch and the frame                                       *)
(***************************************************************************)
\* A frame is open on the slot: its command buffer is being recorded inside
\* an active render pass.
FrameOpen ==
  /\ generalCommandBuffers[currentFrame].state = "recording"
  /\ generalCommandBuffers[currentFrame].renderPass

\* The batch passes the three tests of mossDrawSpriteBatch (1).
Drawable ==
  /\ spriteBatch.indexCount > 0
  /\ ~spriteBatch.isBegun
  /\ spriteBatch.pOriginalEngine = 1

\* C32 as stated: draw records its bind and draw commands only into a
\* command buffer that is recording inside an active render pass; when no
\* frame is open (before the first mossBeginFrame, after mossEndFrame, after
\* a mossBeginFrame that returned without recording) it records nothing.
\* Violated: nothing in mossDrawSpriteBatch tests the state of the buffer.
C32_DrawRecordsOnlyInOpenFrame ==
  [][(DrawCall(1) /\ generalCommandBuffers' # generalCommandBuffers) =>
       FrameOpen]_vars

\* C32 amended: draw does not test whether a frame is open.  For a
\* non-empty, ended batch of this engine, and for no other, it issues its
\* bind and draw commands on the command buffer of slot currentFrame: in an
\* open frame they are recorded there and the call returns success; with no
\* frame open the call is not refused, and the commands are dropped, written
\* into the buffer that is not recording, or the process faults.  No state of
\* a command buffer changes, and no other slot's buffer is touched.
C32_DrawRecordsWithoutTestingTheFrame ==
  [][DrawCall(1) =>
       LET before == generalCommandBuffers[currentFrame]
           after == generalCommandBuffers'[currentFrame]
           succeeded ==
             /\ pc' = "app"
             /\ batchReturn' =
                  Returned("mossDrawSpriteBatch", MOSS_RESULT_SUCCESS, "")
       IN /\ \A s \in FrameSlots \ {currentFrame} :
               generalCommandBuffers'[s] = generalCommandBuffers[s]
          /\ after.state = before.state
          /\ after.renderPass = before.renderPass
          /\ after.framebuffer = before.framebuffer
          /\ ~Drawable => after = before
          /\ (Drawable /\ FrameOpen) =>
               /\ succeeded
               /\ after.draws = before.draws + 1
          /\ (Drawable /\ ~FrameOpen) =>
               \/ pc' = "fault" /\ after = before
               \/ succeeded /\ after.draws \in {before.draws, before.draws + 1}
     ]_vars

\* C32 witness: draw was called before the first mossBeginFrame of the slot
\* and its commands were written into the buffer still in the initial state.
C32_DrawnIntoInitialBuffer ==
  /\ pc = "app"
  /\ batchReturn = Returned("mossDrawSpriteBatch", MOSS_RESULT_SUCCESS, "")
  /\ generalCommandBuffers[currentFrame].state = "initial"
  /\ generalCommandBuffers[currentFrame].draws > 0
  /\ Drawable

C34_RecordedExtentIsImageExtent ==
  SwapchainBuilt(swapchainState) =>
    swapchainState.swapchainExtent = swapchainState.imageExtent

(***************************************************************************)
(* A failed mossEndSpriteBatch                                             *)
(***************************************************************************)
\* mossEndSpriteBatch returned error for another reason than a batch that
\* is not begun: the one-time command buffer was not allocated, begun,
\* ended, submitted or drained.
EndFailedReturn ==
  /\ batchReturn.fn = "mossEndSpriteBatch"
  /\ batchReturn.result = MOSS_RESULT_ERROR
  /\ batchReturn.log # "Sprite batch not begun."

\* C35: when end fails because the transfer command buffer cannot be
\* allocated, begun, ended, submitted or drained, the batch stays begun with
\* vertexDataSize, indexDataSize, indexCount and the staging contents
\* unchanged, and an end called next on the same session is not refused.
C35_FailedEndKeepsSession ==
  [][/\ (/\ mossEndSpriteBatch \/ mossEndSpriteBatch_return
         /\ pc' = "app"
         /\ EndFailedReturn') =>
          /\ spriteBatch'.isBegun
          /\ spriteBatch'.vertexDataSize = spriteBatch.vertexDataSize
          /\ spriteBatch'.indexDataSize = spriteBatch.indexDataSize
          /\ spriteBatch'.indexCount = spriteBatch.indexCount
          /\ spriteBatch' = spriteBatch
          /\ stagingMemory' = stagingMemory
     /\ (EndFailedReturn /\ mossEndSpriteBatch) => ~EndRefused]_vars

\* C35 witness: the transfer of a session that holds a sprite was submitted
\* and could not be drained; end returned error and the session is still
\* begun with its data.
C35_SessionOpenAfterFailedDrain ==
  /\ pc = "app"
  /\ EndFailedReturn
  /\ PendingTransfers > 0
  /\ spriteBatch.isBegun
  /\ HoldsSpriteData

(***************************************************************************)
(* The first frame of a slot                                               *)
(***************************************************************************)
\* C36: the in-flight fences are created signaled, so the vkWaitForFences of
\* the first mossBeginFrame on each slot returns although no submission was
\* made on that slot before.
C36_FirstBeginFindsFenceSignaled ==
  (pc = "vkWaitForFences" /\ slotCalls[currentFrame].begun = "first") =>
    /\ ~slotCalls[currentFrame].submitted
    /\ IncompleteFrames(currentFrame) = {}
    /\ WaitForFences(currentFrame)

\* C36 witness: the first mossBeginFrame on the last slot returned with a
\* frame open, nothing having been submitted on that slot.
C36_LastSlotBegunFirstTime ==
  /\ pc = "app"
  /\ currentFrame = MAX_FRAMES_IN_FLIGHT - 1
  /\ slotCalls[currentFrame].begun = "first"
  /\ ~slotCalls[currentFrame].submitted
  /\ frameReturn = Returned("mossBeginFrame", MOSS_RESULT_SUCCESS, "")
  /\ FrameOpen

(***************************************************************************)
(* Three overlapping sprites                                               *)
(***************************************************************************)
\* The draw call covered the pixel with every sprite of the batch.
DrawnAll == drawIndexed.next = Len(drawIndexed.sprites) + 1

\* The depths of the sprites of the draw call, in the order they were added.
DrawnDepths == [k \in DOMAIN drawIndexed.sprites |-> drawIndexed.sprites[k].depth]

\* C37: with the depth test enabled, compare op LESS, the depth attachment
\* cleared to 1.0 at the start of the frame, and three overlapping sprites of
\* depths 0.0, 0.5 and 1.0 added to one batch in that order and drawn with
\* one draw call, the sprite of depth 1.0 (the third) is the one visible
\* where the three overlap.
C37_DeepestSpriteVisible ==
  (DrawnAll /\ DrawnDepths = << 0, 1, ClearDepth >>) => attachments.color = 3

(***************************************************************************)
(* A layout transition the engine does not know                            *)
(***************************************************************************)
\* The three pairs of layouts the claim names.
KnownTransitions ==
  {<< VK_IMAGE_LAYOUT_UNDEFINED, VK_IMAGE_LAYOUT_TRANSFER_DST_OPTIMAL >>,
   << VK_IMAGE_LAYOUT_TRANSFER_DST_OPTIMAL,
      VK_IMAGE_LAYOUT_SHADER_READ_ONLY_OPTIMAL >>,
   << VK_IMAGE_LAYOUT_UNDEFINED,
      VK_IMAGE_LAYOUT_DEPTH_STENCIL_ATTACHMENT_OPTIMAL >>}

\* C38: an image layout transition asked for with any (old, new) pair other
\* than undefined to transfer destination, transfer destination to shader
\* read only, or undefined to depth stencil attachment returns
\* MOSS_RESULT_ERROR, and no barrier is recorded into the command buffer or
\* submitted to the queue for it.
C38_UnknownTransitionIsAnError ==
  [][\A old_layout, new_layout \in VkImageLayouts :
        (/\ << old_layout, new_layout >> \notin KnownTransitions
         /\ moss_vk__transition_image_layout(old_layout, new_layout))
        => /\ transition'.result = MOSS_RESULT_ERROR
           /\ transition'.command_buffer = << >>
           /\ transition'.queue = transition.queue]_vars

\* C38 witness: a transition of a pair outside the three returned an error
\* after an earlier transition was submitted to the queue, and the queue
\* holds the earlier barrier alone.
C38_UnknownTransitionRefused ==
  /\ transition.calls = 2
  /\ << transition.info.old_layout, transition.info.new_layout >> \notin KnownTransitions
  /\ transition.info.old_layout \in VkImageLayouts
  /\ transition.result = MOSS_RESULT_ERROR
  /\ transition.allocated = 1
  /\ Len(transition.queue) = 1

====
